---- MODULE Spec2Model ----
(***************************************************************************)
(* A model of the FSHN outfit recommender (recommend_from_prompt_tn.ts):   *)
(* intent resolution, weight construction, item scoring, candidate         *)
(* selection, outfit assembly and diversity sampling.                      *)
(*                                                                         *)
(* Numbers.  The program computes with floating-point reals.  Here every   *)
(* score and weight is an integer count of 1/10000 (one "unit" is 0.0001), *)
(* so 1.0 is 10000, 0.001 is 10 and 0.0001 is 1.  Every coefficient of the *)
(* program is a multiple of 0.1 and every factor a multiple of 0.001, so   *)
(* the products are exact.  Floating-point rounding is modelled where a    *)
(* property turns on the exact equality of two computed numbers            *)
(* (pairColorCompatibilityF64), and nowhere else.                          *)
(*                                                                         *)
(* Text.  Strings are TLA+ strings; normalizeText and String.includes are  *)
(* computed character by character.  null / undefined strings are "".      *)
(***************************************************************************)
EXTENDS Integers, Sequences, FiniteSets, TLC

(***************************************************************************)
(* Text helpers                                                            *)
(***************************************************************************)
UPPER == "ABCDEFGHIJKLMNOPQRSTUVWXYZ"
LOWER == "abcdefghijklmnopqrstuvwxyz"
DIGITS == "0123456789"
\* Characters in ascending UTF-16 code-unit order (the order of Array.sort()
\* on strings), for the characters identifiers are made of.
CODE_ORDER == " -.0123456789ABCDEFGHIJKLMNOPQRSTUVWXYZ_abcdefghijklmnopqrstuvwxyz|"

CharAt(s, i) == SubSeq(s, i, i)

CharsOf(s) == {CharAt(s, i) : i \in 1..Len(s)}

UpperSet == CharsOf(UPPER)
AlnumSet == CharsOf(LOWER) \cup CharsOf(DIGITS)

\* Position of character c in the string alpha (0 when absent).
IndexIn(alpha, c) ==
  IF \E i \in 1..Len(alpha) : CharAt(alpha, i) = c
  THEN CHOOSE i \in 1..Len(alpha) :
         CharAt(alpha, i) = c /\ \A j \in 1..(i - 1) : CharAt(alpha, j) # c
  ELSE 0

\* String.prototype.toLowerCase on one character.
lowerChar(c) == IF c \in UpperSet THEN CharAt(LOWER, IndexIn(UPPER, c)) ELSE c

\* .normalize('NFD') followed by the removal of the combining marks
\* (U+0300..U+036F), on one lower-case character: a precomposed accented
\* letter decomposes into its base letter and a mark, and the mark is removed.
stripMark(c) ==
  CASE c \in {"à", "á", "â", "ã", "ä"} -> "a"
    [] c = "ç" -> "c"
    [] c \in {"è", "é", "ê", "ë"} -> "e"
    [] c \in {"ì", "í", "î", "ï"} -> "i"
    [] c = "ñ" -> "n"
    [] c \in {"ò", "ó", "ô", "õ", "ö"} -> "o"
    [] c \in {"ù", "ú", "û", "ü"} -> "u"
    [] OTHER -> c

\* .replace(/[^a-z0-9\s]/g, ' ') on one character.
punctToSpace(c) == IF c \in AlnumSet \/ c = " " THEN c ELSE " "

RECURSIVE MapChars(_, _)
\* s with lower-casing, mark stripping and punctuation replacement applied to
\* the characters from position i on.
MapChars(s, i) ==
  IF i > Len(s) THEN ""
  ELSE punctToSpace(stripMark(lowerChar(CharAt(s, i)))) \o MapChars(s, i + 1)

RECURSIVE collapseSpaces(_, _)
\* .replace(/\s+/g, ' '): every run of spaces becomes one space.
collapseSpaces(s, i) ==
  IF i > Len(s) THEN ""
  ELSE IF CharAt(s, i) = " " /\ i > 1 /\ CharAt(s, i - 1) = " "
       THEN collapseSpaces(s, i + 1)
       ELSE CharAt(s, i) \o collapseSpaces(s, i + 1)

\* .trim() of a string whose runs of spaces are already collapsed.
trim(s) ==
  LET a == IF Len(s) > 0 /\ CharAt(s, 1) = " " THEN 2 ELSE 1
      b == IF Len(s) > 0 /\ CharAt(s, Len(s)) = " " THEN Len(s) - 1 ELSE Len(s)
  IN  IF a > b THEN "" ELSE SubSeq(s, a, b)

\* normalizeText computed character by character.
normalizeChars(s) == trim(collapseSpaces(MapChars(s, 1), 1))

(***************************************************************************)
(* The texts the bounded inputs are made of.  normalizeText looks the       *)
(* character-level result up in a table computed once from these texts and  *)
(* computes it directly for any other string.                               *)
(***************************************************************************)
ItemNames == {"", "White Tee", "Nike Hoodie", "FC Barça Home Jersey", "Nike Barça Training Top",
              "Lakers Jersey", "Timberland Boots", "White Sneaker", "Cargo Trousers",
              "Slim Jeans", "Slip Dress"}
ItemFiles == {"tee", "hoodie", "barca_home", "barca_training", "lakers", "boots", "sneaker",
              "cargo", "jeans", "dress"}
EntityTextsUsed == {"Nike", "FC Barcelona", "Timberland", "Los Angeles Lakers",
                    "Nike FC Barcelona", "FC Barcelona Nike"}
TeamNames == {"FC Barcelona", "barca", "Lakers"}
FocusTexts == {"Nike", "Barcelona", "home jersey", "Timberland boots", "lakers"}
GenderTags == {"m", "w", "u"}
Prompts == {"streetwear fit", "Slip-dress look", "just sneakers", "baggy jeans",
            "Football kit", "Barça matchday outfit"}

KnownTexts ==
  ItemNames \cup EntityTextsUsed \cup TeamNames \cup FocusTexts \cup Prompts
    \cup {normalizeChars(n) : n \in ItemNames}
    \cup {"images/" \o f \o "_" \o g \o ".jpg" : f \in ItemFiles, g \in GenderTags}

NormTable == [s \in KnownTexts |-> normalizeChars(s)]

normalizeText(s) == IF s \in KnownTexts THEN NormTable[s] ELSE normalizeChars(s)

\* String.prototype.includes: needle occurs in hay as a substring (the empty
\* string occurs in every string).
includes(hay, needle) ==
  \E i \in 0..(Len(hay) - Len(needle)) : SubSeq(hay, i + 1, i + Len(needle)) = needle

RECURSIVE joinWith(_, _)
\* Array.prototype.join(sep).
joinWith(seq, sep) ==
  IF Len(seq) = 0 THEN ""
  ELSE IF Len(seq) = 1 THEN seq[1]
  ELSE seq[1] \o sep \o joinWith(Tail(seq), sep)

RECURSIVE splitFrom(_, _, _)
\* String.prototype.split(' ') from position i on, cur being the word read so far.
splitFrom(s, i, cur) ==
  IF i > Len(s) THEN <<cur>>
  ELSE IF CharAt(s, i) = " " THEN <<cur>> \o splitFrom(s, i + 1, "")
  ELSE splitFrom(s, i + 1, cur \o CharAt(s, i))

splitSpaces(s) == splitFrom(s, 1, "")

RECURSIVE lowerStr(_)
\* String.prototype.toLowerCase.
lowerStr(s) == IF s = "" THEN "" ELSE lowerChar(CharAt(s, 1)) \o lowerStr(SubSeq(s, 2, Len(s)))

RECURSIVE trimSpaces(_)
\* String.prototype.trim.
trimSpaces(s) ==
  IF s = "" THEN ""
  ELSE IF CharAt(s, 1) = " " THEN trimSpaces(SubSeq(s, 2, Len(s)))
  ELSE IF CharAt(s, Len(s)) = " " THEN trimSpaces(SubSeq(s, 1, Len(s) - 1))
  ELSE s

\* String.prototype.indexOf(c) and lastIndexOf(c) for a character c, counted
\* from 0; -1 when c does not occur.
indexOfChar(s, c) ==
  IF \E i \in 1..Len(s) : CharAt(s, i) = c
  THEN (CHOOSE i \in 1..Len(s) : CharAt(s, i) = c /\ \A j \in 1..(i - 1) : CharAt(s, j) # c) - 1
  ELSE -1

lastIndexOfChar(s, c) ==
  IF \E i \in 1..Len(s) : CharAt(s, i) = c
  THEN (CHOOSE i \in 1..Len(s) : CharAt(s, i) = c /\ \A j \in (i + 1)..Len(s) : CharAt(s, j) # c) - 1
  ELSE -1

\* a < b in UTF-16 code-unit order (the default order of Array.prototype.sort).
RECURSIVE strLessFrom(_, _, _)
strLessFrom(a, b, i) ==
  IF i > Len(a) THEN i <= Len(b)
  ELSE IF i > Len(b) THEN FALSE
  ELSE IF CharAt(a, i) = CharAt(b, i) THEN strLessFrom(a, b, i + 1)
  ELSE IndexIn(CODE_ORDER, CharAt(a, i)) < IndexIn(CODE_ORDER, CharAt(b, i))

strLess(a, b) == strLessFrom(a, b, 1)

\* Generic sequence helpers.
Range(seq) == {seq[i] : i \in 1..Len(seq)}

RECURSIVE SumSeq(_)
SumSeq(seq) == IF Len(seq) = 0 THEN 0 ELSE seq[1] + SumSeq(Tail(seq))

MaxOf(a, b) == IF a >= b THEN a ELSE b

\* A variant of uniq that keeps every occurrence.
uniq_keepsRepeats(seq) == seq

\* Array.from(new Set(seq)): first occurrences, in order.
RECURSIVE uniq(_)
uniq(seq) ==
  IF Len(seq) = 0 THEN <<>>
  ELSE LET init == uniq(SubSeq(seq, 1, Len(seq) - 1))
           last == seq[Len(seq)]
       IN  IF last \in Range(init) THEN init ELSE Append(init, last)

(***************************************************************************)
(* Vocabulary and data model                                               *)
(***************************************************************************)
Roles == <<"top", "bottom", "shoes", "mono">>
RoleSet == Range(Roles)
Colours == {"black", "white", "grey", "red", "blue", "green", "beige", "brown",
            "pink", "yellow", "purple"}
Vibes == {"streetwear", "edgy", "minimal", "y2k", "techwear", "sporty", "preppy",
          "vintage", "chic"}
Fits == {"oversized", "regular", "slim", "cropped"}
Sports == {"football", "basketball", "running", "tennis", "gym", "other", "none"}
Genders == {"men", "women", "unisex"}
Modes == {"outfit", "single"}
OutfitForms == {"top_bottom_shoes", "top_bottom", "mono_only", "mono_and_shoes", "top_only",
                "bottom_only", "shoes_only"}
Neutrals == {"black", "white", "grey", "beige", "brown"}

\* One unit of the model's fixed-point numbers is 0.0001.
Unit == 100 * 100
\* x tenths of y (the product of a coefficient x/10 and a value y).
Tenths(x, y) == (x * y) \div 10

\* JavaScript falsiness of a scalar field: undefined, null and '' are falsy.
Falsy(v) == v \in {"undefined", "null", ""}

\* item.sportMeta absent: every read of it goes through `?.` or `|| {}`, so an
\* absent sportMeta reads like one with no sport, no teams and isKit unset.
NoSportMeta == [sport |-> "null", teams |-> <<>>, isKit |-> FALSE]

\* (item.sportMeta?.sport || 'none')
sportOf(item) == IF Falsy(item.sportMeta.sport) THEN "none" ELSE item.sportMeta.sport

\* (item.entityMeta || []).map((e) => e.text).join(' ')
entityTexts(item) == joinWith([i \in 1..Len(item.entityMeta) |-> item.entityMeta[i].text], " ")

(***************************************************************************)
(* Weight construction                                                     *)
(***************************************************************************)
\* Number of occurrences of x in seq.
Count(seq, x) == Cardinality({i \in 1..Len(seq) : seq[i] = x})

\* The words of the normalized specific_items phrases, in first-occurrence order.
RECURSIVE specificWords(_)
specificWords(raws) ==
  IF Len(raws) = 0 THEN <<>>
  ELSE LET norm == normalizeText(raws[1])
           ws == IF norm = "" THEN <<>> ELSE SelectSeq(splitSpaces(norm), LAMBDA w : w # "")
       IN  ws \o specificWords(Tail(raws))

\* A variant of buildWeights without the neutral baseline.
buildWeights_noBaseline(intent) ==
  LET explicitFit == ~Falsy(intent.fit_preference) /\ intent.fit_preference # "mixed"
      sporty == ~Falsy(intent.sport_context) /\ intent.sport_context # "none"
  IN  [wColour |-> [c \in Colours |-> Count(intent.colour_hints, c) * Unit],
       wVibe |-> [v \in Vibes |-> Count(intent.vibe_tags, v) * Unit],
       wFit |-> [f \in Fits |->
                   IF explicitFit
                   THEN (IF f = intent.fit_preference THEN Unit ELSE 1000)
                   ELSE CASE f = "oversized" -> 2000 + 2000
                          [] f = "regular" -> 4000 + 5000
                          [] f = "slim" -> 2000 + 2000
                          [] OTHER -> 2000],
       wSport |-> [s \in Sports |-> IF sporty /\ s = intent.sport_context THEN Unit ELSE 0],
       brandTokens |-> [i \in 1..Len(intent.brand_focus) |-> normalizeText(intent.brand_focus[i])],
       teamTokens |-> [i \in 1..Len(intent.team_focus) |-> normalizeText(intent.team_focus[i])],
       sportContext |-> intent.sport_context,
       specificTokens |-> uniq(specificWords(intent.specific_items))]

buildWeights(intent) ==
  LET noHints == Len(intent.colour_hints) = 0
      baseline(c) == IF ~noHints THEN 0
                     ELSE IF c \in {"black", "white", "grey"} THEN 3000
                     ELSE IF c = "beige" THEN 2000 ELSE 0
      explicitFit == ~Falsy(intent.fit_preference) /\ intent.fit_preference # "mixed"
      sporty == ~Falsy(intent.sport_context) /\ intent.sport_context # "none"
  IN  [wColour |-> [c \in Colours |-> Count(intent.colour_hints, c) * Unit + baseline(c)],
       wVibe |-> [v \in Vibes |-> Count(intent.vibe_tags, v) * Unit],
       wFit |-> [f \in Fits |->
                   IF explicitFit
                   THEN (IF f = intent.fit_preference THEN Unit ELSE 1000)
                   ELSE CASE f = "oversized" -> 2000 + 2000
                          [] f = "regular" -> 4000 + 5000
                          [] f = "slim" -> 2000 + 2000
                          [] OTHER -> 2000],
       wSport |-> [s \in Sports |-> IF sporty /\ s = intent.sport_context THEN Unit ELSE 0],
       brandTokens |-> [i \in 1..Len(intent.brand_focus) |-> normalizeText(intent.brand_focus[i])],
       teamTokens |-> [i \in 1..Len(intent.team_focus) |-> normalizeText(intent.team_focus[i])],
       sportContext |-> intent.sport_context,
       specificTokens |-> uniq(specificWords(intent.specific_items))]

(***************************************************************************)
(* Single item scoring                                                     *)
(***************************************************************************)
\* Coefficients in tenths.
WEIGHT_SINGLE == [color |-> 10, vibe |-> 12, fit |-> 8, brand |-> 10, sport |-> 10,
                  team |-> 12, specific |-> 15]

\* Largest element of a non-empty set of integers.
MaxSet(S) == CHOOSE x \in S : \A y \in S : y <= x

\* Sum of f over the finite set S.
RECURSIVE SumOver(_, _)
SumOver(S, f) ==
  IF S = {} THEN 0 ELSE LET x == CHOOSE y \in S : TRUE IN f[x] + SumOver(S \ {x}, f)

colourAlignment(item, wColour) ==
  IF Len(item.colours) = 0 THEN 0
  ELSE LET best0 == MaxSet({0} \cup {wColour[c] : c \in Range(item.colours)})
           totalPref == SumOver(Colours, wColour)
           hasMatch == \E c \in Range(item.colours) : wColour[c] > 0
           best1 == IF totalPref > 0 /\ ~hasMatch THEN best0 - 5000 ELSE best0
           hasNeutral == \E c \in Range(item.colours) : c \in Neutrals
           neutralWeight == MaxSet({wColour[c] : c \in Neutrals})
       IN  IF hasNeutral THEN best1 + Tenths(2, neutralWeight) ELSE best1

vibeAlignment(item, wVibe) ==
  IF Len(item.vibes) = 0 THEN 0
  ELSE LET score == SumSeq([i \in 1..Len(item.vibes) |-> wVibe[item.vibes[i]]])
           totalPref == SumOver(Vibes, wVibe)
           hasMatch == \E v \in Range(item.vibes) : wVibe[v] > 0
       IN  IF totalPref > 0 /\ ~hasMatch THEN score - 3000 ELSE score

fitAlignment(item, wFit) ==
  LET f == IF Falsy(item.fit) THEN "regular" ELSE item.fit IN wFit[f]

brandAlignment(item, brandTokens) ==
  IF Len(brandTokens) = 0 THEN 0
  ELSE LET nameText == normalizeText(item.name) \o " " \o normalizeText(item.name_normalized)
           entText == normalizeText(entityTexts(item))
           hit(t) == IF t = "" THEN 0
                     ELSE (IF includes(nameText, t) THEN Unit ELSE 0)
                          + (IF includes(entText, t) THEN 15000 ELSE 0)
       IN  SumSeq([i \in 1..Len(brandTokens) |-> hit(brandTokens[i])])

\* A variant of sportAlignment with one penalty for kits and other sport items.
sportAlignment_onePenalty(item, wSport, sportContext) ==
  LET sport == sportOf(item)
      kit == item.sportMeta.isKit
      score0 == wSport[sport]
      score1 == IF wSport[sport] > 0 /\ kit THEN score0 + 5000 ELSE score0
  IN  IF sportContext = "none" /\ sport # "none" THEN score1 - 4000 ELSE score1

sportAlignment(item, wSport, sportContext) ==
  LET sport == sportOf(item)
      kit == item.sportMeta.isKit
      score0 == wSport[sport]
      score1 == IF wSport[sport] > 0 /\ kit THEN score0 + 5000 ELSE score0
  IN  IF sportContext = "none" /\ sport # "none"
      THEN score1 - (IF kit THEN 7000 ELSE 4000)
      ELSE score1

\* The text both specificItemAlignment and countSpecificMatches search.
specificText(item) ==
  normalizeText(item.name) \o " " \o normalizeText(item.name_normalized) \o " "
    \o normalizeText(item.imagePath) \o " " \o normalizeText(entityTexts(item))

countSpecificMatches(item, specificTokens) ==
  IF Len(specificTokens) = 0 THEN 0
  ELSE LET txt == specificText(item)
       IN  Cardinality({i \in 1..Len(specificTokens) :
                          specificTokens[i] # "" /\ includes(txt, specificTokens[i])})

specificItemAlignment(item, specificTokens) ==
  IF Len(specificTokens) = 0 THEN 0
  ELSE LET txt == specificText(item)
       IN  SumSeq([i \in 1..Len(specificTokens) |->
                     IF specificTokens[i] # "" /\ includes(txt, specificTokens[i])
                     THEN Unit ELSE 0])

genericTeamText(item) ==
  normalizeText(item.name) \o " " \o normalizeText(item.name_normalized) \o " "
    \o normalizeText(item.imagePath) \o " " \o normalizeText(joinWith(item.entities, " "))
    \o " " \o normalizeText(entityTexts(item))

\* (item.sportMeta?.teams || []).map(normalizeText)
normTeams(item) ==
  [i \in 1..Len(item.sportMeta.teams) |-> normalizeText(item.sportMeta.teams[i])]

\* The normalized texts of the team-typed entities.
normEntTeams(item) ==
  LET es == SelectSeq(item.entityMeta, LAMBDA e : e.type = "team")
  IN  [i \in 1..Len(es) |-> normalizeText(es[i].text)]

\* xs.some((x) => x && (x.includes(t) || t.includes(x)))
fuzzyAny(xs, t) ==
  \E i \in 1..Len(xs) : xs[i] # "" /\ (includes(xs[i], t) \/ includes(t, xs[i]))

teamAlignment(item, teamTokens) ==
  IF Len(teamTokens) = 0 THEN 0
  ELSE LET teams == normTeams(item)
           entTeams == normEntTeams(item)
           txt == genericTeamText(item)
           hit(t) == IF t = "" THEN 0
                     ELSE (IF fuzzyAny(teams, t) THEN 15000 ELSE 0)
                          + (IF fuzzyAny(entTeams, t) THEN 15000 ELSE 0)
                          + (IF includes(txt, t) THEN Unit ELSE 0)
       IN  SumSeq([i \in 1..Len(teamTokens) |-> hit(teamTokens[i])])

scoreSingleItem(item, weights) ==
  LET c == colourAlignment(item, weights.wColour)
      v == vibeAlignment(item, weights.wVibe)
      f == fitAlignment(item, weights.wFit)
      b == brandAlignment(item, weights.brandTokens)
      s == sportAlignment(item, weights.wSport, weights.sportContext)
      t == teamAlignment(item, weights.teamTokens)
      sp == specificItemAlignment(item, weights.specificTokens)
  IN  Tenths(WEIGHT_SINGLE.color, c) + Tenths(WEIGHT_SINGLE.vibe, v)
        + Tenths(WEIGHT_SINGLE.fit, f) + Tenths(WEIGHT_SINGLE.brand, b)
        + Tenths(WEIGHT_SINGLE.sport, s) + Tenths(WEIGHT_SINGLE.team, t)
        + Tenths(WEIGHT_SINGLE.specific, sp)

(***************************************************************************)
(* Pairwise compatibility                                                  *)
(***************************************************************************)
\* Coefficients in tenths.
WEIGHT_PAIR == [color |-> 6, vibe |-> 9, fit |-> 7, sport |-> 8, team |-> 10]

pairColorCompatibility(a, b) ==
  IF Len(a.colours) = 0 \/ Len(b.colours) = 0 THEN 0
  ELSE LET term(ca, cb) ==
             IF ca = cb THEN Unit
             ELSE IF ca \in Neutrals /\ cb \in Neutrals THEN 6000
             ELSE IF ca \in Neutrals \/ cb \in Neutrals THEN 4000
             ELSE 0
           score == SumSeq([i \in 1..Len(a.colours) |->
                      SumSeq([j \in 1..Len(b.colours) |-> term(a.colours[i], b.colours[j])])])
       IN  score \div (Len(a.colours) * Len(b.colours))

(***************************************************************************)
(* pairColorCompatibility in the program's own arithmetic.  A JavaScript    *)
(* number is an IEEE-754 binary64; 0.4 and 0.6 are not binary fractions, so *)
(* every `score +=` rounds.  A double x is written here exactly, as the     *)
(* record [t, e] with x = t/10 + e * u, where u = 2^-54 / 5: one tenth is   *)
(* 2^53 u, the literal 0.4 is the double 0.4 + 2u, 0.6 is 0.6 - 2u and 1.0  *)
(* is exact.  In the binade [2^k, 2^(k+1)) the doubles are the multiples of *)
(* 2^(k-52) = 5 * 2^(k+2) u.                                                *)
(***************************************************************************)
F64_ZERO == [t |-> 0, e |-> 0]
F64_0_4 == [t |-> 4, e |-> 2]
F64_0_6 == [t |-> 6, e |-> -2]
F64_1_0 == [t |-> 10, e |-> 0]

\* The k with 2^k <= t/10 + e*u < 2^(k+1), for values from 0.25 up to 16.
f64Binade(t, e) ==
  LET below(b) == t < b \/ (t = b /\ e < 0)
  IN  IF below(5) THEN -2 ELSE IF below(10) THEN -1 ELSE IF below(20) THEN 0
      ELSE IF below(40) THEN 1 ELSE IF below(80) THEN 2 ELSE 3

\* The double nearest to t/10 + e*u, ties going to the even significand
\* (round-to-nearest-even, the rounding of every JavaScript operation).
\* t/10 = t * 2^53 u lies r5 * 2^(k+2) u above a double of the binade, where
\* r5 = (t * 2^(51-k)) mod 5, and the significand of that double has the
\* parity of r5 (t * 2^(51-k) is even).
f64Round(t, e) ==
  IF t = 0 /\ e = 0 THEN F64_ZERO
  ELSE LET k == f64Binade(t, e)
           ulp == 5 * 2^(k + 2)
           r5 == (t * 2^((51 - k) % 4)) % 5
           x == r5 * 2^(k + 2) + e
           rem == x % ulp
           odd == (r5 + (x - rem) \div ulp) % 2 = 1
       IN  IF 2 * rem < ulp \/ (2 * rem = ulp /\ ~odd)
           THEN [t |-> t, e |-> e - rem]
           ELSE [t |-> t, e |-> e + ulp - rem]

\* x + y in binary64.
f64Add(x, y) == f64Round(x.t + y.t, x.e + y.e)

\* The sum the loops of pairColorCompatibility accumulate, after the terms
\* terms[1..n] have been added in order.
RECURSIVE f64Accumulate(_, _)
f64Accumulate(terms, n) ==
  IF n = 0 THEN F64_ZERO ELSE f64Add(f64Accumulate(terms, n - 1), terms[n])

\* pairColorCompatibility as the program computes it: the accumulated sum
\* `sum` and the divisor `den` of the returned quotient sum / den.  For the
\* colour lists of the data model (one or two colours) den is 1, 2 or 4, the
\* division is exact, and two results are the same number exactly when they
\* are the same record.
pairColorCompatibilityF64(a, b) ==
  IF Len(a.colours) = 0 \/ Len(b.colours) = 0 THEN [sum |-> F64_ZERO, den |-> 1]
  ELSE LET term(ca, cb) ==
             IF ca = cb THEN F64_1_0
             ELSE IF ca \in Neutrals /\ cb \in Neutrals THEN F64_0_6
             ELSE IF ca \in Neutrals \/ cb \in Neutrals THEN F64_0_4
             ELSE F64_ZERO
           nb == Len(b.colours)
           terms == [p \in 1..(Len(a.colours) * nb) |->
                       term(a.colours[((p - 1) \div nb) + 1], b.colours[((p - 1) % nb) + 1])]
       IN  [sum |-> f64Accumulate(terms, Len(terms)), den |-> Len(a.colours) * nb]

pairVibeCompatibility(a, b) ==
  LET va == Range(a.vibes)
      vb == Range(b.vibes)
      shared == Cardinality(va \cap vb)
      bonus == (IF "streetwear" \in va /\ "sporty" \in vb THEN 5000 ELSE 0)
               + (IF "sporty" \in va /\ "streetwear" \in vb THEN 5000 ELSE 0)
               + (IF "chic" \in va /\ "minimal" \in vb THEN 4000 ELSE 0)
               + (IF "minimal" \in va /\ "chic" \in vb THEN 4000 ELSE 0)
  IN  shared * Unit + bonus

pairFitCompatibility(top, bottom) ==
  LET ft == IF Falsy(top.fit) THEN "regular" ELSE top.fit
      fb == IF Falsy(bottom.fit) THEN "regular" ELSE bottom.fit
  IN  CASE ft = "oversized" /\ fb = "slim" -> 13000
        [] ft = "oversized" /\ fb = "regular" -> 10000
        [] ft = "regular" /\ fb = "slim" -> 10000
        [] ft = "slim" /\ fb = "slim" -> 9000
        [] ft = "oversized" /\ fb = "oversized" -> 4000
        [] OTHER -> 5000

pairSportCompatibility(a, b, sportContext) ==
  LET sa == sportOf(a)
      sb == sportOf(b)
  IN  IF sportContext = "none"
      THEN (IF sa = "none" /\ sb = "none" THEN 0
            ELSE IF sa # "none" /\ sb # "none" THEN -5000
            ELSE -2000)
      ELSE IF sa = "none" \/ sb = "none" THEN 0
      ELSE IF sa = sb THEN Unit
      ELSE 2000

pairTeamCompatibility(a, b) ==
  LET ta == normTeams(a)
      tb == normTeams(b)
  IN  IF Len(ta) = 0 \/ Len(tb) = 0 THEN 0
      ELSE IF \E i \in 1..Len(ta), j \in 1..Len(tb) :
                ta[i] # "" /\ tb[j] # ""
                /\ (ta[i] = tb[j] \/ includes(ta[i], tb[j]) \/ includes(tb[j], ta[i]))
      THEN 12000
      ELSE -3000

(***************************************************************************)
(* Candidate filtering                                                     *)
(***************************************************************************)
genderCompatible(itemGender, target) ==
  \/ target = "any"
  \/ itemGender = "unisex"
  \/ itemGender = target

hasBrandMatch(item, brandTokens) ==
  IF Len(brandTokens) = 0 THEN FALSE
  ELSE LET txt == normalizeText(item.name) \o " " \o normalizeText(item.name_normalized)
                    \o " " \o normalizeText(entityTexts(item))
       IN  \E i \in 1..Len(brandTokens) : brandTokens[i] # "" /\ includes(txt, brandTokens[i])

hasTeamMatch(item, teamTokens) ==
  IF Len(teamTokens) = 0 THEN FALSE
  ELSE LET all == normTeams(item) \o normEntTeams(item)
           txt == genericTeamText(item)
       IN  \E i \in 1..Len(teamTokens) :
             teamTokens[i] # ""
             /\ (fuzzyAny(all, teamTokens[i]) \/ includes(txt, teamTokens[i]))

sportMatches(item, sport) ==
  IF Falsy(sport) \/ sport = "none" THEN TRUE ELSE sportOf(item) = sport

isSportRelevantForContext(item, sportContext, teamTokens) ==
  IF sportContext = "none" THEN FALSE
  ELSE IF sportOf(item) = sportContext THEN TRUE
  ELSE hasTeamMatch(item, teamTokens)

\* The relaxation stages a, b, c, d, most restrictive first.
stages ==
  << [requireBrand |-> TRUE, requireTeam |-> TRUE, requireSportStrong |-> TRUE],
     [requireBrand |-> FALSE, requireTeam |-> TRUE, requireSportStrong |-> TRUE],
     [requireBrand |-> FALSE, requireTeam |-> FALSE, requireSportStrong |-> TRUE],
     [requireBrand |-> FALSE, requireTeam |-> FALSE, requireSportStrong |-> FALSE] >>

\* The items of the role (Step 1).
roleItems(items, category) == SelectSeq(items, LAMBDA it : it.category = category)

\* A variant of roleBase without the sport narrowing.
roleBase_neverNarrows(items, category, intent, weights) ==
  SelectSeq(items, LAMBDA it : it.category = category)

\* `base`: the items of the role, narrowed to the sport-relevant ones when a
\* sport context is set and at least one item of the role is sport-relevant.
roleBase(items, category, intent, weights) ==
  LET all == roleItems(items, category)
      sporty == SelectSeq(all, LAMBDA it :
                  isSportRelevantForContext(it, intent.sport_context, weights.teamTokens))
  IN  IF intent.sport_context # "none" /\ Len(sporty) > 0 THEN sporty ELSE all

\* A variant of stageFilter that applies the team filter in the stages that do
\* not require a team match, and not in those that do.
stageFilter_teamFlagNegated(base, stage, intent, weights) ==
  LET gendered == SelectSeq(base, LAMBDA it : genderCompatible(it.gender, intent.target_gender))
      nonSport == SelectSeq(gendered, LAMBDA it : sportOf(it) = "none")
      strong ==
        IF ~stage.requireSportStrong THEN gendered
        ELSE IF intent.sport_context # "none"
        THEN SelectSeq(gendered, LAMBDA it :
               isSportRelevantForContext(it, intent.sport_context, weights.teamTokens))
        ELSE IF Len(nonSport) > 0 THEN nonSport ELSE gendered
      branded ==
        IF stage.requireBrand /\ Len(weights.brandTokens) > 0
        THEN SelectSeq(strong, LAMBDA it : hasBrandMatch(it, weights.brandTokens))
        ELSE strong
  IN  IF ~stage.requireTeam /\ Len(weights.teamTokens) > 0
      THEN SelectSeq(branded, LAMBDA it : hasTeamMatch(it, weights.teamTokens))
      ELSE branded

\* A variant of stageFilter without the preference for non-sport items when no
\* sport is asked for.
stageFilter_noNonSportPreference(base, stage, intent, weights) ==
  LET gendered == SelectSeq(base, LAMBDA it : genderCompatible(it.gender, intent.target_gender))
      strong ==
        IF ~stage.requireSportStrong THEN gendered
        ELSE IF intent.sport_context # "none"
        THEN SelectSeq(gendered, LAMBDA it :
               isSportRelevantForContext(it, intent.sport_context, weights.teamTokens))
        ELSE gendered
      branded ==
        IF stage.requireBrand /\ Len(weights.brandTokens) > 0
        THEN SelectSeq(strong, LAMBDA it : hasBrandMatch(it, weights.brandTokens))
        ELSE strong
  IN  IF stage.requireTeam /\ Len(weights.teamTokens) > 0
      THEN SelectSeq(branded, LAMBDA it : hasTeamMatch(it, weights.teamTokens))
      ELSE branded

\* A variant of stageFilter without the gender filter.
stageFilter_noGenderFilter(base, stage, intent, weights) ==
  LET nonSport == SelectSeq(base, LAMBDA it : sportOf(it) = "none")
      strong ==
        IF ~stage.requireSportStrong THEN base
        ELSE IF intent.sport_context # "none"
        THEN SelectSeq(base, LAMBDA it :
               isSportRelevantForContext(it, intent.sport_context, weights.teamTokens))
        ELSE IF Len(nonSport) > 0 THEN nonSport ELSE base
      branded ==
        IF stage.requireBrand /\ Len(weights.brandTokens) > 0
        THEN SelectSeq(strong, LAMBDA it : hasBrandMatch(it, weights.brandTokens))
        ELSE strong
  IN  IF stage.requireTeam /\ Len(weights.teamTokens) > 0
      THEN SelectSeq(branded, LAMBDA it : hasTeamMatch(it, weights.teamTokens))
      ELSE branded

\* The gender, sport, brand and team filters of one stage.
stageFilter(base, stage, intent, weights) ==
  LET gendered == SelectSeq(base, LAMBDA it : genderCompatible(it.gender, intent.target_gender))
      nonSport == SelectSeq(gendered, LAMBDA it : sportOf(it) = "none")
      strong ==
        IF ~stage.requireSportStrong THEN gendered
        ELSE IF intent.sport_context # "none"
        THEN SelectSeq(gendered, LAMBDA it :
               isSportRelevantForContext(it, intent.sport_context, weights.teamTokens))
        ELSE IF Len(nonSport) > 0 THEN nonSport ELSE gendered
      branded ==
        IF stage.requireBrand /\ Len(weights.brandTokens) > 0
        THEN SelectSeq(strong, LAMBDA it : hasBrandMatch(it, weights.brandTokens))
        ELSE strong
  IN  IF stage.requireTeam /\ Len(weights.teamTokens) > 0
      THEN SelectSeq(branded, LAMBDA it : hasTeamMatch(it, weights.teamTokens))
      ELSE branded

\* A variant of specificNarrow that keeps every item matching some token.
specificNarrow_anyMatch(pool, weights) ==
  IF Len(weights.specificTokens) > 0 /\ Len(pool) > 0
  THEN LET count(it) == countSpecificMatches(it, weights.specificTokens)
           maxMatches == MaxSet({count(pool[i]) : i \in 1..Len(pool)})
       IN  IF maxMatches > 0
           THEN SelectSeq(pool, LAMBDA it : count(it) > 0)
           ELSE pool
  ELSE pool

\* The specific-item narrowing a stage applies to its filtered pool: keep the
\* items that match the largest number of specific tokens, when that number is
\* positive.
specificNarrow(pool, weights) ==
  IF Len(weights.specificTokens) > 0 /\ Len(pool) > 0
  THEN LET count(it) == countSpecificMatches(it, weights.specificTokens)
           maxMatches == MaxSet({count(pool[i]) : i \in 1..Len(pool)})
       IN  IF maxMatches > 0
           THEN SelectSeq(pool, LAMBDA it : count(it) = maxMatches)
           ELSE pool
  ELSE pool

\* The pool one stage of the loop computes.
stagePool(base, stage, intent, weights) ==
  specificNarrow(stageFilter(base, stage, intent, weights), weights)

\* A variant of absoluteFallback that returns the last stage's (empty) pool.
absoluteFallback_lastPool(items, category, base) == <<>>

\* The result when every stage's pool is empty.
absoluteFallback(items, category, base) == base

\* The pools of the stages, in the order the loop tries them.
stagePools(base, intent, weights) ==
  [k \in 1..Len(stages) |-> stagePool(base, stages[k], intent, weights)]

\* A variant of firstNonEmpty that goes on to the last stage with a pool.
firstNonEmpty_lastStage(pools, fallback) ==
  LET live == {k \in 1..Len(pools) : Len(pools[k]) > 0}
  IN  IF live # {} THEN pools[CHOOSE k \in live : \A j \in live : k >= j] ELSE fallback

\* The loop over the stages: the first non-empty pool, or the fallback.
firstNonEmpty(pools, fallback) ==
  LET live == {k \in 1..Len(pools) : Len(pools[k]) > 0}
  IN  IF live # {} THEN pools[CHOOSE k \in live : \A j \in live : k <= j] ELSE fallback

\* filterCandidatesForRole from `base` on.
filterFromBase(items, category, base, intent, weights) ==
  firstNonEmpty(stagePools(base, intent, weights), absoluteFallback(items, category, base))

filterCandidatesForRole(items, category, intent, weights) ==
  filterFromBase(items, category, roleBase(items, category, intent, weights), intent, weights)

(***************************************************************************)
(* Ranking helpers                                                         *)
(***************************************************************************)
\* A variant of sortByScoreDesc that leaves the order as it is.
sortByScoreDesc_unsorted(seq) == seq

\* Array.prototype.sort((a, b) => b.score - a.score): a stable sort by
\* descending score.
RECURSIVE sortByScoreDesc(_)
sortByScoreDesc(seq) ==
  IF Len(seq) = 0 THEN <<>>
  ELSE LET init == sortByScoreDesc(SubSeq(seq, 1, Len(seq) - 1))
           x == seq[Len(seq)]
           k == Cardinality({i \in 1..Len(init) : init[i].score >= x.score})
       IN  SubSeq(init, 1, k) \o <<x>> \o SubSeq(init, k + 1, Len(init))

\* Array.prototype.slice(0, n): a negative n counts from the end.
slice0(seq, n) ==
  LET end == IF n < 0 THEN MaxOf(Len(seq) + n, 0)
             ELSE IF n < Len(seq) THEN n ELSE Len(seq)
  IN  SubSeq(seq, 1, end)

\* pool.map((it) => ({ item: it, score: scoreSingleItem(it, weights) }))
scoreAll(pool, weights) ==
  [i \in 1..Len(pool) |-> [item |-> pool[i], score |-> scoreSingleItem(pool[i], weights)]]

\* scored.map((s) => s.item)
itemsOf(scored) == [i \in 1..Len(scored) |-> scored[i].item]

\* A variant of shortlist that cuts the scored pool without sorting it.
shortlist_unsorted(items, category, intent, weights, perRoleLimit) ==
  itemsOf(slice0(scoreAll(filterCandidatesForRole(items, category, intent, weights), weights),
                 perRoleLimit))

\* The per-role shortlist: the pool scored, sorted and cut to the limit.
shortlist(items, category, intent, weights, perRoleLimit) ==
  itemsOf(slice0(sortByScoreDesc(
            scoreAll(filterCandidatesForRole(items, category, intent, weights), weights)),
          perRoleLimit))

(***************************************************************************)
(* Intent: the oracle's answer, the heuristic fallback, the repair         *)
(***************************************************************************)
\* Stands for `null` where an intent is expected.
NullIntent == [null |-> TRUE]

toColour(s) == LET t == trimSpaces(lowerStr(s)) IN IF t \in Colours THEN t ELSE "null"

toVibe(s) == LET t == trimSpaces(lowerStr(s)) IN IF t \in Vibes THEN t ELSE "null"

\* The "light sanitisation" of a parsed answer.  An absent array field is <<>>
\* (each is read through `|| []`).
sanitise(parsed) ==
  [parsed EXCEPT
     !.required_categories = SelectSeq(@, LAMBDA c : c \in RoleSet),
     !.optional_categories = SelectSeq(@, LAMBDA c : c \in RoleSet),
     !.vibe_tags = SelectSeq([i \in 1..Len(@) |-> toVibe(@[i])], LAMBDA v : ~Falsy(v)),
     !.colour_hints = SelectSeq([i \in 1..Len(@) |-> toColour(@[i])], LAMBDA c : ~Falsy(c))]

\* What getIntentFromGemini returns once the call has returned a response: the
\* response text is `answer.text`; `answer.json` says what JSON.parse makes of
\* the slice from the first "{" to the last "}" ("SyntaxError" when it throws,
\* "object" when it yields `answer.value`), and `answer.arrays` whether the
\* list-valued fields of that value are arrays (filtering one that is not
\* throws a TypeError, which the same catch handles).
getIntentFromGemini(answer) ==
  IF trimSpaces(answer.text) = "" THEN NullIntent
  ELSE LET firstBrace == indexOfChar(answer.text, "{")
           lastBrace == lastIndexOfChar(answer.text, "}")
       IN  IF firstBrace = -1 \/ lastBrace = -1 \/ lastBrace <= firstBrace THEN NullIntent
           ELSE IF answer.json = "SyntaxError" THEN NullIntent
           ELSE IF ~answer.arrays THEN NullIntent
           ELSE sanitise(answer.value)

guessIntentHeuristic(p0, gPref) ==
  LET p == normalizeText(p0)
      has(ks) == \E k \in ks : includes(p, k)
      outfitMode == IF has({"fit", "outfit", "look"}) \/ has({"top and bottom", "top bottom"})
                    THEN "outfit" ELSE "single"
      requested_form ==
        IF outfitMode = "single"
        THEN (IF has({"shoes", "boots", "sneakers", "trainers"}) THEN "shoes_only"
              ELSE IF has({"pants", "jeans", "trousers", "bottom"}) THEN "bottom_only"
              ELSE "top_only")
        ELSE (IF has({"dress", "gown", "slip dress"}) THEN "mono_only" ELSE "top_bottom_shoes")
      required_categories ==
        CASE requested_form = "top_bottom_shoes" -> <<"top", "bottom", "shoes">>
          [] requested_form = "mono_only" -> <<"mono">>
          [] requested_form = "top_only" -> <<"top">>
          [] requested_form = "bottom_only" -> <<"bottom">>
          [] requested_form = "shoes_only" -> <<"shoes">>
          [] requested_form = "mono_and_shoes" -> <<"mono", "shoes">>
          [] OTHER -> <<>>
      sport_context ==
        IF has({"football", "soccer", "kit", "matchday"}) THEN "football"
        ELSE IF has({"basketball", "nba"}) THEN "basketball"
        ELSE IF has({"gym", "workout", "training"}) THEN "gym"
        ELSE IF has({"running", "runner"}) THEN "running"
        ELSE IF has({"tennis"}) THEN "tennis"
        ELSE "none"
      vibe_tags ==
        (IF has({"streetwear", "street", "trap", "hoodie", "cargo", "graphic", "hype"})
         THEN <<"streetwear">> ELSE <<>>)
        \o (IF has({"grunge", "goth", "rock", "punk", "dark", "leather"})
            THEN <<"edgy">> ELSE <<>>)
        \o (IF has({"minimal", "clean", "basic", "essentials", "capsule", "neutral"})
            THEN <<"minimal">> ELSE <<>>)
        \o (IF has({"y2k", "2000"}) THEN <<"y2k">> ELSE <<>>)
        \o (IF has({"preppy", "college", "ivy", "varsity", "polo"})
            THEN <<"preppy">> ELSE <<>>)
        \o (IF has({"vintage", "retro", "oldschool"}) THEN <<"vintage">> ELSE <<>>)
        \o (IF has({"chic", "elegant", "slip dress", "silk", "satin"})
            THEN <<"chic">> ELSE <<>>)
        \o (IF sport_context # "none" THEN <<"sporty">> ELSE <<>>)
      fit_preference ==
        IF has({"baggy", "oversized", "huge", "boxy"}) THEN "oversized"
        ELSE IF has({"skinny", "tight", "slim"}) THEN "slim"
        ELSE IF has({"cropped"}) THEN "cropped"
        ELSE "mixed"
  IN  [outfit_mode |-> outfitMode, requested_form |-> requested_form,
       required_categories |-> required_categories, optional_categories |-> <<>>,
       target_gender |-> gPref, vibe_tags |-> slice0(uniq(vibe_tags), 3),
       colour_hints |-> <<>>, brand_focus |-> <<>>, team_focus |-> <<>>,
       sport_context |-> sport_context, fit_preference |-> fit_preference,
       specific_items |-> <<>>]

\* A variant of resolveIntent that compares the lengths of the two category
\* lists instead of the sizes of the two role sets.
resolveIntent_listLength(gem, heur) ==
  LET start == IF gem = NullIntent THEN heur ELSE gem
  IN  IF Len(start.required_categories) = 0
      THEN [start EXCEPT
              !.required_categories = heur.required_categories,
              !.requested_form = IF Falsy(@) THEN heur.requested_form ELSE @,
              !.outfit_mode = IF Falsy(@) THEN heur.outfit_mode ELSE @]
      ELSE IF /\ start.outfit_mode = "outfit"
              /\ heur.outfit_mode = "outfit"
              /\ Len(start.required_categories) < Len(heur.required_categories)
           THEN [start EXCEPT !.required_categories = heur.required_categories,
                              !.requested_form = heur.requested_form]
           ELSE start

\* A variant of resolveIntent that, for an answer without categories, takes
\* the heuristic's form whatever form the answer gives.
resolveIntent_formAlways(gem, heur) ==
  LET start == IF gem = NullIntent THEN heur ELSE gem
  IN  IF Len(start.required_categories) = 0
      THEN [start EXCEPT
              !.required_categories = heur.required_categories,
              !.requested_form = heur.requested_form,
              !.outfit_mode = IF Falsy(@) THEN heur.outfit_mode ELSE @]
      ELSE IF /\ start.outfit_mode = "outfit"
              /\ heur.outfit_mode = "outfit"
              /\ Cardinality(Range(start.required_categories))
                   < Cardinality(Range(heur.required_categories))
           THEN [start EXCEPT !.required_categories = heur.required_categories,
                              !.requested_form = heur.requested_form]
           ELSE start

\* The intent main() works with, from what the oracle call returned (gem, an
\* intent or null) and the heuristic intent: the fallback and the repair.
resolveIntent(gem, heur) ==
  LET start == IF gem = NullIntent THEN heur ELSE gem
  IN  IF Len(start.required_categories) = 0
      THEN [start EXCEPT
              !.required_categories = heur.required_categories,
              !.requested_form = IF Falsy(@) THEN heur.requested_form ELSE @,
              !.outfit_mode = IF Falsy(@) THEN heur.outfit_mode ELSE @]
      ELSE IF /\ start.outfit_mode = "outfit"
              /\ heur.outfit_mode = "outfit"
              /\ Cardinality(Range(start.required_categories))
                   < Cardinality(Range(heur.required_categories))
           THEN [start EXCEPT !.required_categories = heur.required_categories,
                              !.requested_form = heur.requested_form]
           ELSE start

(***************************************************************************)
(* Bounded inputs: catalog items as the classifier writes them.  An item's *)
(* id is its file name, so the ids of a catalog are pairwise distinct.     *)
(***************************************************************************)
genderOfTag(g) == CASE g = "m" -> "men" [] g = "w" -> "women" [] OTHER -> "unisex"

mkItem(file, g, category, colours, vibes, fit, sportMeta, name, entityMeta) ==
  [id |-> file \o "_" \o g \o ".jpg",
   imagePath |-> "images/" \o file \o "_" \o g \o ".jpg",
   category |-> category, colours |-> colours, vibes |-> vibes,
   gender |-> genderOfTag(g), fit |-> fit, sportMeta |-> sportMeta,
   name |-> name, name_normalized |-> normalizeText(name),
   entities |-> [i \in 1..Len(entityMeta) |-> entityMeta[i].text],
   entityMeta |-> entityMeta]

entity(text, type) == [text |-> text, weight |-> 9, type |-> type]

Tee(g) == mkItem("tee", g, "top", <<"white">>, <<"minimal">>, "regular", NoSportMeta,
                 "White Tee", <<>>)
Hoodie(g) == mkItem("hoodie", g, "top", <<"black">>, <<"streetwear">>, "oversized",
                    NoSportMeta, "Nike Hoodie", <<entity("Nike", "brand")>>)
BarcaHome(g) == mkItem("barca_home", g, "top", <<"blue", "red">>, <<"sporty">>, "regular",
                       [sport |-> "football", teams |-> <<"FC Barcelona", "barca">>,
                        isKit |-> TRUE],
                       "FC Barça Home Jersey", <<entity("FC Barcelona", "team")>>)
BarcaTraining(g) == mkItem("barca_training", g, "top", <<"blue">>, <<"sporty">>, "regular",
                           [sport |-> "football", teams |-> <<"FC Barcelona">>,
                            isKit |-> FALSE],
                           "Nike Barça Training Top",
                           <<entity("Nike", "brand"), entity("FC Barcelona", "team")>>)
Lakers(g) == mkItem("lakers", g, "top", <<"yellow", "purple">>, <<"sporty">>, "null",
                    [sport |-> "basketball", teams |-> <<"Lakers">>, isKit |-> TRUE],
                    "Lakers Jersey", <<entity("Los Angeles Lakers", "team")>>)
Boots(g) == mkItem("boots", g, "shoes", <<"brown">>, <<"streetwear">>, "null", NoSportMeta,
                   "Timberland Boots", <<entity("Timberland", "brand")>>)
Sneaker(g) == mkItem("sneaker", g, "shoes", <<"white">>, <<"sporty">>, "null", NoSportMeta,
                     "White Sneaker", <<>>)
Cargo(g) == mkItem("cargo", g, "bottom", <<"black">>, <<"streetwear">>, "regular",
                   NoSportMeta, "Cargo Trousers", <<>>)
Jeans(g) == mkItem("jeans", g, "bottom", <<"blue">>, <<"minimal">>, "slim", NoSportMeta,
                   "Slim Jeans", <<>>)
Dress(g) == mkItem("dress", g, "mono", <<"black">>, <<"chic">>, "null", NoSportMeta,
                   "Slip Dress", <<>>)

\* All sequences of at most n pairwise distinct elements of U.
Catalogs(U, n) ==
  UNION {{c \in [1..k -> U] : \A i, j \in 1..k : i # j => c[i] # c[j]} : k \in 0..n}

\* A heuristic-shaped intent with nothing asked for; inputs vary its fields.
PlainIntent ==
  [outfit_mode |-> "outfit", requested_form |-> "top_bottom_shoes",
   required_categories |-> <<"top", "bottom", "shoes">>, optional_categories |-> <<>>,
   target_gender |-> "any", vibe_tags |-> <<>>, colour_hints |-> <<>>,
   brand_focus |-> <<>>, team_focus |-> <<>>, sport_context |-> "none",
   fit_preference |-> "mixed", specific_items |-> <<>>]

(***************************************************************************)
(* State                                                                   *)
(***************************************************************************)
VARIABLES
  pc,               \* position in main()
  prompt,           \* argv.prompt
  genderPref,       \* argv.gender_pref
  oracle,           \* what the oracle call does: reject, or respond with a text
  heuristicIntent,  \* guessIntentHeuristic(prompt, genderPref)
  intent,           \* the intent main() works with
  items,            \* the catalog
  perRoleLimit,     \* argv.per_role_limit
  poolSize,         \* argv.pool_size
  epsilon,          \* argv.epsilon, in units
  jitter,           \* argv.jitter, in units
  candidatesByCat,  \* the per-role shortlists
  outfits,          \* the scored candidates
  topBand,          \* the band the sampler draws from
  chosen,           \* the accepted results, in acceptance order
  usedIds,          \* the signatures accepted so far
  exitCode,         \* -1 while running, else the process exit status
  run,              \* 1 in the first run, 2 in a repeated run on the same inputs
  firstChosen,      \* the result of the first run, once a second run has started
  stdout,           \* the lines written by console.log
  pairScore         \* what a pair function returned for (a, b) and for (b, a)

inputVars == <<prompt, genderPref, oracle, items, perRoleLimit, poolSize, epsilon, jitter>>
intentVars == <<heuristicIntent, intent>>
sampleVars == <<topBand, chosen, usedIds>>
vars == <<pc, prompt, genderPref, oracle, heuristicIntent, intent, items, perRoleLimit,
          poolSize, epsilon, jitter, candidatesByCat, outfits, topBand, chosen, usedIds,
          exitCode, run, firstChosen, stdout, pairScore>>

\* const weights = buildWeights(intent)
weights == buildWeights(intent)

\* const requiredCats = Array.from(new Set(intent.required_categories))
requiredCats == uniq(intent.required_categories)

NoCandidates == [c \in RoleSet |-> <<>>]

(***************************************************************************)
(* Candidate selection: the loop over the required roles                   *)
(***************************************************************************)
BuildCandidates ==
  /\ pc = "select"
  /\ candidatesByCat' =
       [c \in RoleSet |->
          IF c \in Range(requiredCats)
          THEN shortlist(items, c, intent, weights, perRoleLimit)
          ELSE <<>>]
  /\ pc' = "assemble"
  /\ UNCHANGED <<inputVars, intentVars, outfits, sampleVars, exitCode, run, firstChosen, stdout, pairScore>>

\* The bound of the selection inputs: the largest catalog.
MaxCatalog == 2
\* The default of --per_role_limit.
DefaultPerRoleLimit == 12

SelectUniverse ==
  {Tee("m"), Tee("w"), Hoodie("u"), BarcaHome("m"), BarcaHome("w"), BarcaTraining("m"),
   Lakers("u"), Boots("m"), Sneaker("w")}

SelectIntents ==
  {[PlainIntent EXCEPT !.target_gender = g, !.sport_context = s, !.team_focus = t,
                       !.brand_focus = b, !.specific_items = sp] :
     g \in {"any", "men", "women"}, s \in {"none", "football"},
     t \in {<<>>, <<"Barcelona">>}, b \in {<<>>, <<"Nike">>},
     sp \in {<<>>, <<"home jersey">>}}

Idle ==
  /\ prompt = "" /\ genderPref = "any" /\ oracle = [call |-> "none"]
  /\ heuristicIntent = NullIntent
  /\ candidatesByCat = NoCandidates /\ outfits = <<>>
  /\ topBand = <<>> /\ chosen = <<>> /\ usedIds = {}
  /\ exitCode = -1 /\ run = 1 /\ firstChosen = <<>>
  /\ stdout = <<>> /\ pairScore = <<>>

InitSelect ==
  /\ Idle
  /\ pc = "select"
  /\ items \in Catalogs(SelectUniverse, MaxCatalog)
  /\ intent \in SelectIntents
  /\ perRoleLimit \in {1, DefaultPerRoleLimit}
  /\ poolSize = 1 /\ epsilon = 0 /\ jitter = 0

NextSelect == BuildCandidates

SpecSelect == InitSelect /\ [][NextSelect]_vars

(***************************************************************************)
(* The scoring functions on their own: two items that differ in colour     *)
(***************************************************************************)
\* scoreSingleItem applied to each item, as the candidate loop applies it.
ScoreItems ==
  /\ pc = "score"
  /\ outfits' = scoreAll(items, weights)
  /\ pc' = "pair"
  /\ UNCHANGED <<inputVars, intentVars, candidatesByCat, sampleVars, exitCode, run,
                 firstChosen, stdout, pairScore>>

\* pairColorCompatibility applied to the two items, in both orders.
ScorePair ==
  /\ pc = "pair"
  /\ pairScore' = << pairColorCompatibilityF64(items[1], items[2]),
                     pairColorCompatibilityF64(items[2], items[1]) >>
  /\ pc' = "scored"
  /\ UNCHANGED <<inputVars, intentVars, candidatesByCat, outfits, sampleVars, exitCode, run,
                 firstChosen, stdout>>

\* The longest colour list of an item.
MaxColours == 2

ScorePalette == {"black", "beige", "red", "yellow", "blue"}

\* A dress and a tee in every colouring of one to MaxColours palette colours.
ScoreUniverse ==
  {[base EXCEPT !.colours = cs] :
     base \in {Dress("w"), Tee("m")},
     cs \in UNION {[1..n -> ScorePalette] : n \in 1..MaxColours}}

ScoreIntents ==
  {[PlainIntent EXCEPT !.requested_form = "mono_only", !.required_categories = <<"mono">>,
                       !.vibe_tags = v, !.colour_hints = h] :
     v \in {<<>>, <<"chic">>}, h \in {<<>>, <<"yellow">>}}

InitScore ==
  /\ Idle
  /\ pc = "score"
  /\ items \in [1..2 -> ScoreUniverse]
  /\ intent \in ScoreIntents
  /\ perRoleLimit = DefaultPerRoleLimit
  /\ poolSize = 1 /\ epsilon = 0 /\ jitter = 0

NextScore == ScoreItems \/ ScorePair

SpecScore == InitScore /\ [][NextScore]_vars

\* The item scores of a catalog with and without sport items, for intents with
\* and without a sport context.
ItemScoreIntents ==
  {[PlainIntent EXCEPT !.sport_context = s, !.vibe_tags = v, !.team_focus = t] :
     s \in {"none", "football"}, v \in {<<>>, <<"sporty">>}, t \in {<<>>, <<"Barcelona">>}}

InitItemScore ==
  /\ Idle
  /\ pc = "score"
  /\ items \in Catalogs(SelectUniverse, MaxCatalog)
  /\ intent \in ItemScoreIntents
  /\ perRoleLimit = DefaultPerRoleLimit
  /\ poolSize = 1 /\ epsilon = 0 /\ jitter = 0

NextItemScore == ScoreItems

SpecItemScore == InitItemScore /\ [][NextItemScore]_vars

(***************************************************************************)
(* Intent resolution: main() up to `const weights`                         *)
(***************************************************************************)
\* main() from its start to the await of the oracle call.
ParsePrompt ==
  /\ pc = "start"
  /\ heuristicIntent' = guessIntentHeuristic(prompt, genderPref)
  /\ pc' = "oracle"
  /\ UNCHANGED <<inputVars, intent, candidatesByCat, outfits, sampleVars, exitCode, run,
                 firstChosen, stdout, pairScore>>

\* The awaited call rejects: nothing in getIntentFromGemini or main() catches
\* it, so main()'s promise rejects and its catch handler exits with status 1.
OracleRejects ==
  /\ pc = "oracle"
  /\ oracle.call = "rejects"
  /\ pc' = "exit"
  /\ exitCode' = 1
  /\ UNCHANGED <<inputVars, intentVars, candidatesByCat, outfits, sampleVars, run,
                 firstChosen, stdout, pairScore>>

\* The awaited call returns a response: fallback and repair.
OracleAnswers ==
  /\ pc = "oracle"
  /\ oracle.call = "responds"
  /\ intent' = resolveIntent(getIntentFromGemini(oracle), heuristicIntent)
  /\ pc' = "select"
  /\ UNCHANGED <<inputVars, heuristicIntent, candidatesByCat, outfits, sampleVars,
                 exitCode, run, firstChosen, stdout, pairScore>>

\* What the oracle may answer with: objects whose enum and list fields hold
\* values in and out of the closed sets, and lists that name a value twice.
RawIntents ==
  {[PlainIntent EXCEPT !.outfit_mode = m, !.requested_form = f,
                       !.required_categories = c, !.vibe_tags = v,
                       !.colour_hints = IF v = <<>> THEN <<>>
                                        ELSE IF v[1] = "chic" THEN <<"Red", "red ">>
                                        ELSE <<" WHITE", "teal">>,
                       !.optional_categories = IF v = <<>> THEN <<>> ELSE <<"hat", "shoes">>,
                       !.sport_context = s] :
     m \in {"outfit", "single", "undefined"},
     f \in {"mono_only", "top_bottom_shoes", "undefined"},
     c \in {<<>>, <<"hat">>, <<"top">>, <<"top", "top", "top">>, <<"mono", "shoes">>,
            <<"top", "bottom", "shoes">>, <<"top", "scarf", "bottom", "shoes", "mono">>},
     v \in {<<>>, <<"Streetwear ", "cozy">>, <<"chic", "Chic", "edgy">>},
     s \in {"none", "cricket"}}

OracleOutcomes ==
  {[call |-> "rejects", text |-> "", json |-> "SyntaxError", arrays |-> FALSE,
    value |-> NullIntent]}
  \cup {[call |-> "responds", text |-> t, json |-> "SyntaxError", arrays |-> FALSE,
         value |-> NullIntent] : t \in {"", "  ", "Sorry, no.", "} {", "{ oops", "{oops}"}}
  \cup {[call |-> "responds", text |-> "Here: {...}", json |-> "object", arrays |-> FALSE,
         value |-> r] : r \in {PlainIntent}}
  \cup {[call |-> "responds", text |-> "Here: {...}", json |-> "object", arrays |-> TRUE,
         value |-> r] : r \in RawIntents}

InitIntent ==
  /\ pc = "start"
  /\ prompt \in Prompts
  /\ genderPref \in {"any", "women"}
  /\ oracle \in OracleOutcomes
  /\ heuristicIntent = NullIntent /\ intent = NullIntent
  /\ items = <<>> /\ perRoleLimit = DefaultPerRoleLimit
  /\ poolSize = 1 /\ epsilon = 0 /\ jitter = 0
  /\ candidatesByCat = NoCandidates /\ outfits = <<>>
  /\ topBand = <<>> /\ chosen = <<>> /\ usedIds = {}
  /\ exitCode = -1 /\ run = 1 /\ firstChosen = <<>>
  /\ stdout = <<>> /\ pairScore = <<>>

NextIntent == ParsePrompt \/ OracleRejects \/ OracleAnswers

SpecIntent == InitIntent /\ [][NextIntent]_vars

(***************************************************************************)
(* Outfit assembly                                                         *)
(***************************************************************************)
\* Math.random() yields one of the values k / RandDen, 0 <= k < RandDen; a
\* draw is its numerator k.
RandDen == 4
Draws == 0..(RandDen - 1)

\* The defaults of --epsilon and --jitter, in units.
DefaultEpsilon == 1500
DefaultJitter == 1500

clamp01(x) == IF x < 0 THEN 0 ELSE IF x > Unit THEN Unit ELSE x

\* randUniform(min, max) for the draw k.
randUniform(min, max, k) == min + (k * (max - min)) \div RandDen

\* The pairwise term of two items of an outfit; the fit factor enters for top
\* and bottom only.
pairTerm(a, b, withFit, sportContext) ==
  Tenths(WEIGHT_PAIR.color, pairColorCompatibility(a, b))
    + Tenths(WEIGHT_PAIR.vibe, pairVibeCompatibility(a, b))
    + (IF withFit THEN Tenths(WEIGHT_PAIR.fit, pairFitCompatibility(a, b)) ELSE 0)
    + Tenths(WEIGHT_PAIR.sport, pairSportCompatibility(a, b, sportContext))
    + Tenths(WEIGHT_PAIR.team, pairTeamCompatibility(a, b))

\* The map from item id to single score; a later catalog entry with the same
\* id overwrites an earlier one.
singleScoresOf(its, w) ==
  [id \in {its[i].id : i \in 1..Len(its)} |->
     LET last == CHOOSE i \in 1..Len(its) :
                   its[i].id = id /\ \A j \in (i + 1)..Len(its) : its[j].id # id
     IN  scoreSingleItem(its[last], w)]

\* singleScores.get(id) ?? 0
getScore(singleScores, id) == IF id \in DOMAIN singleScores THEN singleScores[id] ELSE 0

\* A variant of scoreOutfit that adds the fit term for every pair.
scoreOutfit_fitEveryPair(outfit, singleScores, w) ==
  LET has(k) == k \in DOMAIN outfit
      single(k) == IF has(k) THEN getScore(singleScores, outfit[k].id) ELSE 0
      pair(x, y) ==
        IF has(x) /\ has(y) THEN pairTerm(outfit[x], outfit[y], TRUE, w.sportContext)
        ELSE 0
  IN  single("top") + single("bottom") + single("shoes") + single("mono")
        + pair("top", "bottom") + pair("top", "shoes")
        + pair("bottom", "shoes") + pair("mono", "shoes")

\* An outfit is a function from the roles it fills to items.
scoreOutfit(outfit, singleScores, w) ==
  LET has(k) == k \in DOMAIN outfit
      single(k) == IF has(k) THEN getScore(singleScores, outfit[k].id) ELSE 0
      pair(x, y, withFit) ==
        IF has(x) /\ has(y) THEN pairTerm(outfit[x], outfit[y], withFit, w.sportContext)
        ELSE 0
  IN  single("top") + single("bottom") + single("shoes") + single("mono")
        + pair("top", "bottom", TRUE) + pair("top", "shoes", FALSE)
        + pair("bottom", "shoes", FALSE) + pair("mono", "shoes", FALSE)

RECURSIVE Flatten(_)
Flatten(seqs) == IF Len(seqs) = 0 THEN <<>> ELSE Head(seqs) \o Flatten(Tail(seqs))

\* A variant of isOutfit that does not look at the mode.
isOutfit_anyMode(int) == Len(uniq(int.required_categories)) > 1

\* const isOutfit = intent.outfit_mode === 'outfit' && requiredCats.length > 1
isOutfit(int) == int.outfit_mode = "outfit" /\ Len(uniq(int.required_categories)) > 1

\* A variant of combinations whose top/bottom branch never adds the shoes.
combinations_noShoes(cands, int) ==
  LET cats == uniq(int.required_categories)
      tops == cands["top"]
      bottoms == cands["bottom"]
      shoes == cands["shoes"]
      monos == cands["mono"]
      useShoes == "shoes" \in Range(cats)
  IN  IF isOutfit(int)
      THEN IF "mono" \in Range(cats)
           THEN Flatten([m \in 1..Len(monos) |->
                  IF useShoes /\ Len(shoes) > 0
                  THEN [sh \in 1..Len(shoes) |-> ("mono" :> monos[m]) @@ ("shoes" :> shoes[sh])]
                  ELSE <<("mono" :> monos[m])>>])
           ELSE Flatten([t \in 1..Len(tops) |->
                  [b \in 1..Len(bottoms) |-> ("top" :> tops[t]) @@ ("bottom" :> bottoms[b])]])
      ELSE Flatten([c \in 1..Len(cats) |->
             [i \in 1..Len(cands[cats[c]]) |-> (cats[c] :> cands[cats[c]][i])]])

\* The outfits main() builds from the shortlists, in the order it pushes them.
combinations(cands, int) ==
  LET cats == uniq(int.required_categories)
      tops == cands["top"]
      bottoms == cands["bottom"]
      shoes == cands["shoes"]
      monos == cands["mono"]
      useShoes == "shoes" \in Range(cats)
  IN  IF isOutfit(int)
      THEN IF "mono" \in Range(cats)
           THEN Flatten([m \in 1..Len(monos) |->
                  IF useShoes /\ Len(shoes) > 0
                  THEN [sh \in 1..Len(shoes) |-> ("mono" :> monos[m]) @@ ("shoes" :> shoes[sh])]
                  ELSE <<("mono" :> monos[m])>>])
           ELSE Flatten([t \in 1..Len(tops) |->
                  Flatten([b \in 1..Len(bottoms) |->
                    IF useShoes /\ Len(shoes) > 0
                    THEN [sh \in 1..Len(shoes) |->
                            ("top" :> tops[t]) @@ ("bottom" :> bottoms[b])
                              @@ ("shoes" :> shoes[sh])]
                    ELSE <<("top" :> tops[t]) @@ ("bottom" :> bottoms[b])>>])])
      ELSE Flatten([c \in 1..Len(cats) |->
             [i \in 1..Len(cands[cats[c]]) |-> (cats[c] :> cands[cats[c]][i])]])

\* The score of an outfit before the jitter is added.
baseScore(outfit, its, int) ==
  LET w == buildWeights(int)
      singleScores == singleScoresOf(its, w)
  IN  IF isOutfit(int) THEN scoreOutfit(outfit, singleScores, w)
      ELSE LET k == CHOOSE k \in DOMAIN outfit : TRUE
           IN  getScore(singleScores, outfit[k].id)

\* main() from `const singleScores` to the end of the assembly; d[i] is the
\* draw behind the jitter of the i-th outfit pushed.
Assemble ==
  /\ pc = "assemble"
  /\ LET combos == combinations(candidatesByCat, intent)
     IN  \E d \in [1..Len(combos) -> Draws] :
           outfits' = [i \in 1..Len(combos) |->
                         [outfit |-> combos[i],
                          score |-> baseScore(combos[i], items, intent)
                                      + randUniform(-jitter, jitter, d[i])]]
  /\ pc' = "assembled"
  /\ UNCHANGED <<inputVars, intentVars, candidatesByCat, sampleVars, exitCode, run,
                 firstChosen, stdout, pairScore>>

\* if (!outfits.length) { ...; process.exit(1) }
NoOutfits ==
  /\ pc = "assembled"
  /\ Len(outfits) = 0
  /\ pc' = "exit"
  /\ exitCode' = 1
  /\ UNCHANGED <<inputVars, intentVars, candidatesByCat, outfits, sampleVars, run,
                 firstChosen, stdout, pairScore>>

\* Selection and assembly on their own, for every required role list.
AssembleUniverse == {Tee("m"), BarcaHome("m"), Cargo("u"), Boots("m"), Dress("w")}

AssembleIntents ==
  {[PlainIntent EXCEPT !.outfit_mode = m, !.required_categories = c] :
     m \in {"outfit", "single"},
     c \in {<<"top", "bottom", "shoes">>, <<"top", "bottom">>, <<"mono", "shoes">>,
            <<"mono", "top">>, <<"top", "shoes">>, <<"top", "bottom", "shoes", "mono">>,
            <<"mono">>}}

InitAssemble ==
  /\ Idle
  /\ pc = "select"
  /\ items \in Catalogs(AssembleUniverse, MaxCatalog + 1)
  /\ intent \in AssembleIntents
  /\ perRoleLimit = DefaultPerRoleLimit
  /\ poolSize = 1 /\ epsilon = 0
  /\ jitter \in {0, DefaultJitter}

NextAssemble == BuildCandidates \/ Assemble

SpecAssemble == InitAssemble /\ [][NextAssemble]_vars

(***************************************************************************)
(* Ranking and diversity sampling                                          *)
(***************************************************************************)
\* A variant of bandOf that takes the band from the candidates as assembled.
bandOf_unsorted(scored, n) == slice0(scored, MaxOf(n * 3, n))

\* outfits.slice(0, Math.max(poolSize * 3, poolSize)) of the sorted outfits
bandOf(scored, n) == slice0(sortByScoreDesc(scored), MaxOf(n * 3, n))

\* The sort, the band and the empty result.
Rank ==
  /\ pc = "assembled"
  /\ Len(outfits) # 0
  /\ outfits' = sortByScoreDesc(outfits)
  /\ topBand' = bandOf(outfits, poolSize)
  /\ chosen' = <<>>
  /\ usedIds' = {}
  /\ pc' = "sample"
  /\ UNCHANGED <<inputVars, intentVars, candidatesByCat, exitCode, run, firstChosen, stdout, pairScore>>

\* choiceWeighted for the draw k, as the position of the item it returns (0
\* for null): the first position at which r, counted down from k / RandDen of
\* the total, is no longer positive.
choiceWeighted(its, scores, k) ==
  LET total == SumSeq(scores)
      hits == {i \in 1..Len(its) : k * total - RandDen * SumSeq(SubSeq(scores, 1, i)) <= 0}
  IN  IF Len(its) = 0 \/ total <= 0 THEN 0
      ELSE IF hits # {} THEN CHOOSE i \in hits : \A j \in hits : i <= j
      ELSE Len(its)

\* Array.prototype.sort() on strings: the element at position p is the one
\* with p - 1 elements before it in the order (equal elements keep their
\* relative order).
sortStrings(seq) ==
  [p \in 1..Len(seq) |->
     seq[CHOOSE i \in 1..Len(seq) :
           Cardinality({j \in 1..Len(seq) :
                          strLess(seq[j], seq[i]) \/ (seq[j] = seq[i] /\ j < i)}) = p - 1]]

\* The signature of an outfit: the ids of its items, sorted and joined.
signature(outfit) ==
  LET present == SelectSeq(Roles, LAMBDA k : k \in DOMAIN outfit)
      ids == [i \in 1..Len(present) |-> outfit[present[i]].id]
  IN  joinWith(sortStrings(ids), "|")

\* topBand.splice(idx, 1), idx counted from 1.
spliceOut(seq, idx) == SubSeq(seq, 1, idx - 1) \o SubSeq(seq, idx + 1, Len(seq))

\* A variant of the end of an iteration that accepts the pick whatever its
\* signature.
samplerStep_noSignatureTest(band, acc, used, idx, sig) ==
  [topBand |-> spliceOut(band, idx),
   chosen |-> Append(acc, band[idx]),
   usedIds |-> used \cup {sig}]

\* A variant of the end of an iteration that removes the pick from the band
\* only when it was accepted.
samplerStep_keepsRejected(band, acc, used, idx, sig) ==
  IF sig \notin used
  THEN [topBand |-> spliceOut(band, idx), chosen |-> Append(acc, band[idx]),
        usedIds |-> used \cup {sig}]
  ELSE [topBand |-> band, chosen |-> acc, usedIds |-> used]

\* The end of an iteration, for the pick at position idx of the band and its
\* signature sig: the acceptance, and the removal from the band.
samplerStep(band, acc, used, idx, sig) ==
  [topBand |-> spliceOut(band, idx),
   chosen |-> IF sig \notin used THEN Append(acc, band[idx]) ELSE acc,
   usedIds |-> used \cup {sig}]

\* The position of the pick in the band, for the draws u (epsilon test) and
\* r (weighted choice).
pickIndex(band, eps, u, r) ==
  IF u * Unit < eps * RandDen
  THEN LET minScore == band[Len(band)].score
           scores == [i \in 1..Len(band) |-> MaxOf(1, band[i].score - minScore + 10)]
           selected == choiceWeighted(band, scores, r)
       IN  IF selected = 0 THEN 1 ELSE selected
  ELSE 1

\* One iteration of the sampling loop.
Iterate ==
  /\ pc = "sample"
  /\ Len(chosen) < poolSize /\ Len(topBand) # 0
  /\ \E u \in Draws :
       \E r \in IF u * Unit < clamp01(epsilon) * RandDen THEN Draws ELSE {0} :
         \E idx \in {pickIndex(topBand, clamp01(epsilon), u, r)} :
           \E sig \in {signature(topBand[idx].outfit)} :
             \E after \in {samplerStep(topBand, chosen, usedIds, idx, sig)} :
               /\ topBand' = after.topBand
               /\ chosen' = after.chosen
               /\ usedIds' = after.usedIds
  /\ UNCHANGED <<pc, inputVars, intentVars, candidatesByCat, outfits, exitCode, run,
                 firstChosen, stdout, pairScore>>

\* The lines of one result: one per populated role, in the fixed role order.
roleLines(outfit) ==
  LET present == SelectSeq(Roles, LAMBDA k : k \in DOMAIN outfit)
  IN  [j \in 1..Len(present) |-> present[j] \o " " \o outfit[present[j]].imagePath]

\* A variant of printLines that writes the blank line after every result.
printLines_blankAfterEach(result) ==
  Flatten([i \in 1..Len(result) |-> roleLines(result[i].outfit) \o <<"">>])

\* The output loop: the lines of each result, and a blank line after every
\* result but the last.
printLines(result) ==
  Flatten([i \in 1..Len(result) |->
             roleLines(result[i].outfit) \o (IF i # Len(result) THEN <<"">> ELSE <<>>)])

\* The loop condition fails: the results are printed and main() returns.
LoopEnds ==
  /\ pc = "sample"
  /\ ~(Len(chosen) < poolSize /\ Len(topBand) # 0)
  /\ stdout' = printLines(chosen)
  /\ pc' = "done"
  /\ exitCode' = 0
  /\ UNCHANGED <<inputVars, intentVars, candidatesByCat, outfits, sampleVars, run,
                 firstChosen, pairScore>>

\* The program is run once more on the same inputs.
Rerun ==
  /\ pc = "done"
  /\ run = 1
  /\ run' = 2
  /\ firstChosen' = chosen
  /\ pc' = "select"
  /\ candidatesByCat' = NoCandidates /\ outfits' = <<>>
  /\ topBand' = <<>> /\ chosen' = <<>> /\ usedIds' = {}
  /\ exitCode' = -1
  /\ stdout' = <<>>
  /\ UNCHANGED <<inputVars, intentVars, pairScore>>

(***************************************************************************)
(* The sampler on its own, and whole runs                                  *)
(***************************************************************************)
\* The largest index file, and the largest requested count.
MaxListed == 3
MaxPool == 2

\* All sequences of at most n elements of U: an index file may list an item
\* more than once.
Listings(U, n) == UNION {[1..k -> U] : k \in 0..n}

SampleUniverse == {Tee("m"), Hoodie("u"), Cargo("u")}

RunUniverse == {Tee("m"), Tee("w"), Hoodie("u"), Cargo("u")}

RunIntents ==
  {[PlainIntent EXCEPT !.outfit_mode = "single", !.requested_form = "top_only",
                       !.required_categories = <<"top">>, !.vibe_tags = <<"streetwear">>,
                       !.colour_hints = <<"white">>],
   [PlainIntent EXCEPT !.vibe_tags = <<"streetwear">>, !.colour_hints = <<"white">>]}

\* One run from the resolved intent on, over index files that may repeat an
\* item, for every requested count and for epsilon below zero, zero, inside
\* (0, 1) and above 1.
InitSample ==
  /\ Idle
  /\ pc = "select"
  /\ items \in Listings(SampleUniverse, MaxListed)
  /\ intent \in RunIntents
  /\ perRoleLimit = DefaultPerRoleLimit
  /\ poolSize \in 0..MaxPool
  /\ epsilon \in {-DefaultEpsilon, 0, DefaultEpsilon, 2 * Unit}
  /\ jitter = 0

NextSample == BuildCandidates \/ Assemble \/ NoOutfits \/ Rank \/ Iterate \/ LoopEnds

SpecSample == InitSample /\ [][NextSample]_vars

\* The sampling loop keeps running: main() is synchronous from the oracle's
\* answer on, so nothing can suspend it between two iterations.
SpecSampleFair == SpecSample /\ WF_vars(Iterate \/ LoopEnds)

\* Two runs on the same inputs, over index files whose ids are unique (the
\* indexer's ids are the file names of one directory).
InitRun ==
  /\ Idle
  /\ pc = "select"
  /\ items \in Catalogs(RunUniverse, MaxListed)
  /\ intent \in RunIntents
  /\ perRoleLimit = DefaultPerRoleLimit
  /\ poolSize \in 0..MaxPool
  /\ epsilon \in {0, DefaultEpsilon}
  /\ jitter \in IF epsilon = 0 THEN {0, DefaultJitter} ELSE {0}

NextRun ==
  BuildCandidates \/ Assemble \/ NoOutfits \/ Rank \/ Iterate \/ LoopEnds \/ Rerun

SpecRun == InitRun /\ [][NextRun]_vars

(***************************************************************************)
(* Intent resolution: properties                                           *)
(***************************************************************************)
\* What getIntentFromGemini returned, when the call returned.
gem == getIntentFromGemini(oracle)

\* The oracle gave nothing usable: the call failed, or its response was empty,
\* without a JSON object, or unparseable.
oracleUnusable == oracle.call = "rejects" \/ gem = NullIntent

\* C8 as claimed: when the oracle is unreachable, or answers with an empty or
\* malformed response, the request does not fail: it goes on to selection with
\* the heuristic intent as its intent.
C8_OracleFailureNonFatal ==
  (pc \in {"select", "exit"} /\ oracleUnusable) =>
    (pc = "select" /\ exitCode # 1 /\ intent = heuristicIntent)

\* The part of C8 that holds: an empty or malformed response (the call itself
\* returning) leads on to selection with the heuristic intent.
C8_BadResponseFallsBack ==
  (pc \in {"select", "exit"} /\ oracle.call = "responds" /\ gem = NullIntent) =>
    (pc = "select" /\ exitCode # 1 /\ intent = heuristicIntent)

\* C9 as claimed: when the oracle intent has no required categories, the
\* resolved intent has the heuristic's categories and the heuristic's form,
\* whatever form the oracle gave.
C9_FormAndCategoriesReplaced ==
  (pc = "select" /\ gem # NullIntent /\ Len(gem.required_categories) = 0) =>
    /\ intent.required_categories = heuristicIntent.required_categories
    /\ intent.requested_form = heuristicIntent.requested_form

\* C9 amended: when the oracle intent has no required categories, the resolved
\* intent has the heuristic's categories; its form is the heuristic's only
\* when the oracle gave no form, and the oracle's form otherwise.
C9_CategoriesReplacedFormFilled ==
  (pc = "select" /\ gem # NullIntent /\ Len(gem.required_categories) = 0) =>
    /\ intent.required_categories = heuristicIntent.required_categories
    /\ intent.requested_form =
         IF Falsy(gem.requested_form) THEN heuristicIntent.requested_form
         ELSE gem.requested_form

\* C9 witness: an oracle intent without categories but with the form
\* mono_only has been repaired from a heuristic intent of another form, and
\* the oracle's form was kept.
C9_Witness ==
  /\ pc = "select"
  /\ gem # NullIntent
  /\ Len(gem.required_categories) = 0
  /\ gem.requested_form = "mono_only"
  /\ heuristicIntent.requested_form = "top_bottom_shoes"
  /\ intent.required_categories = <<"top", "bottom", "shoes">>
  /\ intent.requested_form = "mono_only"

\* C10: for an oracle intent with categories: when it and the heuristic intent
\* are both outfit-mode and the heuristic's role set has more roles than the
\* oracle's, the resolved intent has the heuristic's categories and form; in
\* every other case it keeps the oracle's categories.
C10_LargerFallbackRoleSetWins ==
  (pc = "select" /\ gem # NullIntent /\ Len(gem.required_categories) > 0) =>
    IF /\ gem.outfit_mode = "outfit"
       /\ heuristicIntent.outfit_mode = "outfit"
       /\ Cardinality(Range(heuristicIntent.required_categories))
            > Cardinality(Range(gem.required_categories))
    THEN /\ intent.required_categories = heuristicIntent.required_categories
         /\ intent.requested_form = heuristicIntent.requested_form
    ELSE intent.required_categories = gem.required_categories

\* C10 witness: an outfit-mode oracle intent naming one role three times has
\* been replaced by the heuristic's three roles.
C10_Witness ==
  /\ pc = "select"
  /\ gem # NullIntent
  /\ gem.required_categories = <<"top", "top", "top">>
  /\ gem.requested_form = "mono_only"
  /\ intent.required_categories = <<"top", "bottom", "shoes">>
  /\ intent.requested_form = "top_bottom_shoes"

\* The list-valued enum fields of an intent hold values of their closed sets.
listFieldsClosed(int) ==
  /\ Range(int.required_categories) \subseteq RoleSet
  /\ Range(int.optional_categories) \subseteq RoleSet
  /\ Range(int.vibe_tags) \subseteq Vibes
  /\ Range(int.colour_hints) \subseteq Colours

\* The scalar enum fields of an intent hold a value of their closed set, or
\* none (a discarded value leaves the field absent).
scalarFieldsClosed(int) ==
  /\ int.outfit_mode \in Modes \/ Falsy(int.outfit_mode)
  /\ int.requested_form \in OutfitForms \/ Falsy(int.requested_form)
  /\ int.target_gender \in Genders \cup {"any"} \/ Falsy(int.target_gender)
  /\ int.sport_context \in Sports \/ Falsy(int.sport_context)
  /\ int.fit_preference \in Fits \cup {"mixed"} \/ Falsy(int.fit_preference)

\* C11 as claimed: when the oracle's response was parsed and sanitised, every
\* enum-valued field of the intent that goes on to the weights and to the
\* selection holds only values of its closed set.
C11_EnumFieldsClosed ==
  (pc = "select" /\ gem # NullIntent) =>
    (listFieldsClosed(intent) /\ scalarFieldsClosed(intent))

\* The part of C11 that holds: the four list-valued fields are filtered.
C11_ListFieldsClosed ==
  (pc = "select" /\ gem # NullIntent) => listFieldsClosed(intent)

\* C12: the role list selection and assembly work with (requiredCats) is not
\* empty, holds only roles, and holds no role twice, whatever the prompt and
\* whatever the oracle answered.
C12_RequiredRolesWellFormed ==
  pc = "select" =>
    /\ Len(requiredCats) > 0
    /\ Range(requiredCats) \subseteq RoleSet
    /\ \A i, j \in 1..Len(requiredCats) : i # j => requiredCats[i] # requiredCats[j]

\* C12 witness: the oracle named one role three times and the repair kept its
\* list (the heuristic intent is single-mode); the role list has it once.
C12_Witness ==
  /\ pc = "select"
  /\ gem # NullIntent
  /\ intent.required_categories = <<"top", "top", "top">>
  /\ requiredCats = <<"top">>

\* The neutral baseline of a colour: black, white and grey 0.3, beige 0.2.
neutralBaseline(c) ==
  IF c \in {"black", "white", "grey"} THEN 3000 ELSE IF c = "beige" THEN 2000 ELSE 0

\* C24 as claimed: in the weights built from the resolved intent, every
\* hinted colour has the weight 1.0 and every other colour 0, the neutral
\* baseline coming on top exactly when there are no colour hints; every
\* tagged vibe has the weight 1.0 and every other vibe 0.
C24_HintedWeightsAreOne ==
  pc = "select" =>
    /\ \A c \in Colours :
         weights.wColour[c] =
           IF Len(intent.colour_hints) = 0 THEN neutralBaseline(c)
           ELSE IF c \in Range(intent.colour_hints) THEN Unit ELSE 0
    /\ \A v \in Vibes :
         weights.wVibe[v] = IF v \in Range(intent.vibe_tags) THEN Unit ELSE 0

\* What holds in place of C24: a colour or vibe has the weight 1.0 for each
\* time the list names it.
C24_HintedWeightsCountOccurrences ==
  pc = "select" =>
    /\ \A c \in Colours :
         weights.wColour[c] =
           IF Len(intent.colour_hints) = 0 THEN neutralBaseline(c)
           ELSE Cardinality({i \in 1..Len(intent.colour_hints) : intent.colour_hints[i] = c})
                  * Unit
    /\ \A v \in Vibes :
         weights.wVibe[v] =
           Cardinality({i \in 1..Len(intent.vibe_tags) : intent.vibe_tags[i] = v}) * Unit

(***************************************************************************)
(* Candidate selection: properties                                         *)
(***************************************************************************)
\* The pool `base` of a role in the current state.
baseOf(c) == roleBase(items, c, intent, weights)

\* Every relaxation stage computes an empty pool for role c.
allStagesEmpty(c) ==
  \A k \in 1..Len(stages) : Len(stagePool(baseOf(c), stages[k], intent, weights)) = 0

\* C1: whenever the catalog holds an item of a required role, the shortlist
\* selected for that role (filtering, scoring, truncation to a limit >= 1) is
\* not empty.
C1_SelectionNonEmpty ==
  pc = "assemble" =>
    \A c \in Range(requiredCats) :
      Len(roleItems(items, c)) > 0 => Len(candidatesByCat[c]) > 0

\* C1 witness: a role with items whose every stage is empty (no item is
\* gender-compatible) has been selected for, through the absolute fallback.
C1_Witness ==
  /\ pc = "assemble"
  /\ \E c \in Range(requiredCats) :
       Len(roleItems(items, c)) > 0 /\ allStagesEmpty(c) /\ Len(candidatesByCat[c]) > 0

\* C6 as claimed: once selection has run, for every role the pool each
\* relaxation stage computes is contained in the pool the next stage computes.
C6_StagePoolsWiden ==
  pc = "assemble" =>
    \A c \in RoleSet :
      LET pool == [k \in 1..Len(stages) |->
                     Range(stagePool(baseOf(c), stages[k], intent, weights))]
      IN  \A k \in 1..(Len(stages) - 1) : pool[k] \subseteq pool[k + 1]

\* C6 amended: for every role, the pool of each stage before the specific-item
\* narrowing (the items passing the stage's gender, sport, brand and team
\* filters) is contained in that of the next stage.
C6_StageFiltersWiden ==
  pc = "assemble" =>
    \A c \in RoleSet :
      LET w == weights
          base == roleBase(items, c, intent, w)
          pool == [k \in 1..Len(stages) |-> Range(stageFilter(base, stages[k], intent, w))]
      IN  \A k \in 1..(Len(stages) - 1) : pool[k] \subseteq pool[k + 1]

\* C6 witness: specific-item tokens are given, stage a passes some item and
\* stage b passes strictly more, and selection has run.
C6_Witness ==
  /\ pc = "assemble"
  /\ Len(weights.specificTokens) > 0
  /\ \E c \in Range(requiredCats) :
       LET a == Range(stageFilter(baseOf(c), stages[1], intent, weights))
           b == Range(stageFilter(baseOf(c), stages[2], intent, weights))
       IN  a # {} /\ a # b /\ a \subseteq b

\* C7 as claimed: when every stage is empty for a role, the pool selection
\* returns is the whole role-restricted catalog, the sport narrowing included
\* in what is ignored.
C7_FallbackIsWholeRole ==
  pc = "assemble" =>
    \A c \in Range(requiredCats) :
      allStagesEmpty(c) =>
        filterCandidatesForRole(items, c, intent, weights) = roleItems(items, c)

\* Item it is sport-relevant for the intent of the current state.
relevantNow(it) == isSportRelevantForContext(it, intent.sport_context, weights.teamTokens)

C20_FirstNonEmptyStageWins ==
  pc = "assemble" =>
    \A c \in Range(requiredCats) :
      LET abcd == << [requireBrand |-> TRUE, requireTeam |-> TRUE, requireSportStrong |-> TRUE],
                    [requireBrand |-> FALSE, requireTeam |-> TRUE, requireSportStrong |-> TRUE],
                    [requireBrand |-> FALSE, requireTeam |-> FALSE, requireSportStrong |-> TRUE],
                    [requireBrand |-> FALSE, requireTeam |-> FALSE,
                     requireSportStrong |-> FALSE] >>
          w == weights
          base == roleBase(items, c, intent, w)
          pool == [k \in 1..4 |-> stagePool(base, abcd[k], intent, w)]
          live == {k \in 1..4 : Len(pool[k]) > 0}
          got == candidatesByCat[c]
      IN  live # {} =>
            LET first == CHOOSE k \in live : \A j \in live : k <= j
            IN  /\ Range(got) \subseteq Range(pool[first])
                /\ Len(got) = IF perRoleLimit < Len(pool[first]) THEN perRoleLimit
                              ELSE Len(pool[first])

\* C20 witness: for some required role stage a has no pool, an earlier stage
\* than d has one, stage d's pool holds an item that stage does not, and the
\* selection is that earlier stage's pool.
C20_Witness ==
  /\ pc = "assemble"
  /\ \E c \in Range(requiredCats) :
       LET pool == [k \in 1..4 |-> Range(stagePool(baseOf(c), stages[k], intent, weights))]
       IN  /\ pool[1] = {}
           /\ \E k \in 2..3 :
                /\ pool[k] # {} /\ \A j \in 1..(k - 1) : pool[j] = {}
                /\ pool[4] \ pool[k] # {}
                /\ Range(candidatesByCat[c]) = pool[k]

\* C21: once selection has run for an intent without a sport context: for
\* every required role that has a gender-compatible item without a sport,
\* every selected item is without a sport (so an item with a sport is
\* selected only for a role that has no gender-compatible item without one).
C21_NonSportPreferred ==
  (pc = "assemble" /\ intent.sport_context = "none") =>
    \A c \in Range(requiredCats) :
      LET role == roleItems(items, c)
          got == candidatesByCat[c]
      IN  (\E i \in 1..Len(role) :
             /\ genderCompatible(role[i].gender, intent.target_gender)
             /\ sportOf(role[i]) = "none")
          => \A j \in 1..Len(got) : sportOf(got[j]) = "none"

\* C21 witness: no sport is asked for and a brand is; a role holds a
\* gender-compatible sport item of that brand and a gender-compatible item
\* without a sport and not of that brand; the latter alone was selected.
C21_Witness ==
  /\ pc = "assemble"
  /\ intent.sport_context = "none"
  /\ Len(weights.brandTokens) > 0
  /\ \E c \in Range(requiredCats) :
       LET role == roleItems(items, c)
       IN  \E i, j \in 1..Len(role) :
             /\ genderCompatible(role[i].gender, intent.target_gender)
             /\ sportOf(role[i]) # "none" /\ hasBrandMatch(role[i], weights.brandTokens)
             /\ genderCompatible(role[j].gender, intent.target_gender)
             /\ sportOf(role[j]) = "none" /\ ~hasBrandMatch(role[j], weights.brandTokens)
             /\ Range(candidatesByCat[c]) = {role[j]}

\* C22: once selection has run for an intent with specific-item tokens: the
\* narrowing leaves every stage's non-empty filtered pool non-empty, and for
\* every required role with a non-empty stage, every selected item matches
\* the same number of tokens, the largest number any item of the returning
\* stage's filtered pool matches.
C22_SpecificKeepsMaxMatches ==
  (pc = "assemble" /\ Len(weights.specificTokens) > 0) =>
    LET w == weights
        count == [it \in Range(items) |-> countSpecificMatches(it, w.specificTokens)]
    IN  \A c \in Range(requiredCats) :
          LET base == roleBase(items, c, intent, w)
              filtered == [k \in 1..Len(stages) |-> stageFilter(base, stages[k], intent, w)]
              live == {k \in 1..Len(stages) : Len(filtered[k]) > 0}
              got == candidatesByCat[c]
          IN  /\ \A k \in live : Len(specificNarrow(filtered[k], w)) > 0
              /\ live # {} =>
                    LET first == CHOOSE k \in live : \A j \in live : k <= j
                        most == MaxSet({count[filtered[first][i]] :
                                          i \in 1..Len(filtered[first])})
                    IN  /\ Len(got) > 0
                        /\ \A j \in 1..Len(got) : count[got[j]] = most

\* C22 witness: specific-item tokens are given; the returning stage's
\* filtered pool of some role holds an item matching two tokens and an item
\* matching one; the former alone was selected.
C22_Witness ==
  /\ pc = "assemble"
  /\ Len(weights.specificTokens) > 0
  /\ \E c \in Range(requiredCats) :
       LET filtered == [k \in 1..Len(stages) |->
                         stageFilter(baseOf(c), stages[k], intent, weights)]
           live == {k \in 1..Len(stages) : Len(filtered[k]) > 0}
           count(it) == countSpecificMatches(it, weights.specificTokens)
       IN  /\ live # {}
           /\ LET pool == filtered[CHOOSE k \in live : \A j \in live : k <= j]
              IN  \E i, j \in 1..Len(pool) :
                    /\ count(pool[i]) = 2 /\ count(pool[j]) = 1
                    /\ Range(candidatesByCat[c]) = {pool[i]}

\* C23: once selection has run, for every required role: the shortlist is
\* in non-increasing order of item score, it holds min(per-role limit, size
\* of the surviving pool) items of that pool, and no item of the pool that is
\* left out scores strictly higher than an item that is in.
C23_ShortlistIsTopOfPool ==
  pc = "assemble" =>
    LET w == weights
        sc == [it \in Range(items) |-> scoreSingleItem(it, w)]
    IN  \A c \in Range(requiredCats) :
          LET pool == filterCandidatesForRole(items, c, intent, w)
              got == candidatesByCat[c]
          IN  /\ \A i, j \in 1..Len(got) : i < j => sc[got[i]] >= sc[got[j]]
              /\ Len(got) = IF perRoleLimit < Len(pool) THEN perRoleLimit ELSE Len(pool)
              /\ Range(got) \subseteq Range(pool)
              /\ \A x \in Range(pool) \ Range(got) : \A y \in Range(got) : sc[x] <= sc[y]

\* C23 witness: the limit is 1 and the surviving pool of some role holds two
\* items, the second scoring higher than the first; the second alone is in
\* the shortlist.
C23_Witness ==
  /\ pc = "assemble"
  /\ perRoleLimit = 1
  /\ \E c \in Range(requiredCats) :
       LET pool == filterCandidatesForRole(items, c, intent, weights)
       IN  /\ Len(pool) = 2
           /\ scoreSingleItem(pool[2], weights) > scoreSingleItem(pool[1], weights)
           /\ candidatesByCat[c] = <<pool[2]>>

\* Item it is gender-compatible with the target gender of the current state.
compatibleNow(it) == genderCompatible(it.gender, intent.target_gender)

\* C30 as claimed: once selection has run, for every required role of which
\* the catalog holds a gender-compatible item, every selected item is
\* gender-compatible.
C30_SelectionGenderCompatible ==
  pc = "assemble" =>
    \A c \in Range(requiredCats) :
      LET role == roleItems(items, c)
          got == candidatesByCat[c]
      IN  (\E i \in 1..Len(role) : compatibleNow(role[i]))
          => \A j \in 1..Len(got) : compatibleNow(got[j])

\* C30 amended: for every required role of which `base` (the items of the
\* role, narrowed to the sport-relevant ones when there are any) holds a
\* gender-compatible item, every selected item is gender-compatible.
C30_SelectionGenderCompatibleInBase ==
  pc = "assemble" =>
    \A c \in Range(requiredCats) :
      LET base == baseOf(c)
          got == candidatesByCat[c]
      IN  (\E i \in 1..Len(base) : compatibleNow(base[i]))
          => \A j \in 1..Len(got) : compatibleNow(got[j])

\* C30 witness: a sport context is set and `base` of some role holds an item
\* that is not gender-compatible and one that is; the latter alone was
\* selected.
C30_Witness ==
  /\ pc = "assemble"
  /\ intent.sport_context # "none"
  /\ \E c \in Range(requiredCats) :
       LET base == baseOf(c)
       IN  \E i, j \in 1..Len(base) :
             /\ ~compatibleNow(base[i]) /\ compatibleNow(base[j])
             /\ Range(candidatesByCat[c]) = {base[j]}

(***************************************************************************)
(* Assembly: properties                                                    *)
(***************************************************************************)
\* C19 as claimed: in an outfit-mode request with more than one required
\* role, every assembled outfit fills exactly the required roles.
C19_OutfitFillsRequiredRoles ==
  (pc = "assembled" /\ isOutfit(intent)) =>
    \A i \in 1..Len(outfits) : DOMAIN outfits[i].outfit = Range(requiredCats)

\* C19 amended: in such a request every assembled outfit fills required
\* roles only: mono when mono is required, top and bottom when it is not,
\* and with them the shoes exactly when shoes are required and the shoe
\* shortlist is not empty.
C19_OutfitFillsAssembledRoles ==
  (pc = "assembled" /\ isOutfit(intent)) =>
    \A i \in 1..Len(outfits) :
      LET filled == DOMAIN outfits[i].outfit
          required == Range(requiredCats)
          core == IF "mono" \in required THEN {"mono"} ELSE {"top", "bottom"}
          withShoes == "shoes" \in required /\ Len(candidatesByCat["shoes"]) > 0
      IN  /\ filled \subseteq required
          /\ filled = core \cup (IF withShoes THEN {"shoes"} ELSE {})

\* C19 witness: top, bottom and shoes are required, the catalog has no shoes,
\* and an outfit of a top and a bottom has been assembled.
C19_Witness ==
  /\ pc = "assembled" /\ isOutfit(intent)
  /\ Range(requiredCats) = {"top", "bottom", "shoes"}
  /\ candidatesByCat["shoes"] = <<>>
  /\ Len(outfits) > 0
  /\ DOMAIN outfits[1].outfit = {"top", "bottom"}

\* The pairs of roles scoreOutfit has a term for.
scoredPairs == {<<"top", "bottom">>, <<"top", "shoes">>, <<"bottom", "shoes">>,
                <<"mono", "shoes">>}

\* C27: in a multi-role request without jitter, the score of every assembled
\* outfit is the sum of the item scores of its items plus, for each of the
\* pairs top-bottom, top-shoes, bottom-shoes and mono-shoes it has both roles
\* of, 0.6 colour + 0.9 vibe + 0.8 sport + 1.0 team pair compatibility, and
\* 0.7 fit pair compatibility for top-bottom alone; an outfit of one item
\* has that item's score.
C27_CompositeScore ==
  (pc = "assembled" /\ isOutfit(intent) /\ jitter = 0) =>
    \A n \in 1..Len(outfits) :
      LET o == outfits[n].outfit
          itemScores == [r \in DOMAIN o |-> scoreSingleItem(o[r], weights)]
          present == {p \in scoredPairs : p[1] \in DOMAIN o /\ p[2] \in DOMAIN o}
          term == [p \in present |->
                     Tenths(6, pairColorCompatibility(o[p[1]], o[p[2]]))
                       + Tenths(9, pairVibeCompatibility(o[p[1]], o[p[2]]))
                       + Tenths(8, pairSportCompatibility(o[p[1]], o[p[2]],
                                                          intent.sport_context))
                       + Tenths(10, pairTeamCompatibility(o[p[1]], o[p[2]]))
                       + (IF p = <<"top", "bottom">>
                          THEN Tenths(7, pairFitCompatibility(o[p[1]], o[p[2]])) ELSE 0)]
      IN  /\ outfits[n].score = SumOver(DOMAIN o, itemScores) + SumOver(present, term)
          /\ Cardinality(DOMAIN o) = 1 =>
                \A r \in DOMAIN o : outfits[n].score = scoreSingleItem(o[r], weights)

\* C27 witness: an outfit of a top, a bottom and shoes has been assembled
\* and scored, the top a sport item, and its score is not the sum of its
\* items' scores.
C27_Witness ==
  /\ pc = "assembled" /\ isOutfit(intent) /\ jitter = 0
  /\ \E n \in 1..Len(outfits) :
       LET o == outfits[n].outfit
       IN  /\ DOMAIN o = {"top", "bottom", "shoes"}
           /\ sportOf(o["top"]) # "none"
           /\ outfits[n].score # scoreSingleItem(o["top"], weights)
                                   + scoreSingleItem(o["bottom"], weights)
                                   + scoreSingleItem(o["shoes"], weights)

\* C28: in a request that is single-mode or has one required role, every
\* candidate has exactly one item, in a required role and from that role's
\* shortlist, and its score is the item's score plus a jitter within
\* [-jitter, jitter], with no pairwise term.
C28_SingleRoleCandidates ==
  (pc = "assembled" /\ (intent.outfit_mode = "single" \/ Len(requiredCats) = 1)) =>
    \A n \in 1..Len(outfits) :
      LET o == outfits[n].outfit
      IN  /\ Cardinality(DOMAIN o) = 1
          /\ \A r \in DOMAIN o :
               /\ r \in Range(requiredCats)
               /\ o[r] \in Range(candidatesByCat[r])
               /\ \E k \in Draws :
                    outfits[n].score =
                      scoreSingleItem(o[r], weights) + randUniform(-jitter, jitter, k)

\* C28 witness: a single-mode request for a top and a bottom has two
\* candidates, one of each role, one of them scored below its item score.
C28_Witness ==
  /\ pc = "assembled"
  /\ intent.outfit_mode = "single" /\ requiredCats = <<"top", "bottom">>
  /\ jitter > 0
  /\ Len(outfits) = 2
  /\ DOMAIN outfits[1].outfit = {"top"} /\ DOMAIN outfits[2].outfit = {"bottom"}
  /\ outfits[1].score < scoreSingleItem(outfits[1].outfit["top"], weights)

(***************************************************************************)
(* Scoring: properties                                                     *)
(***************************************************************************)
\* Items a and b are the same in every attribute but the colours.
sameButColour(a, b) == [a EXCEPT !.colours = <<>>] = [b EXCEPT !.colours = <<>>]

\* C17: for an intent without colour hints, of two items that differ in
\* colour only, one all black or all beige has a strictly higher item score
\* than one all yellow.
C17_NeutralsAboveYellow ==
  (pc \in {"pair", "scored"} /\ Len(intent.colour_hints) = 0) =>
    \A i, j \in 1..Len(items) :
      ( /\ sameButColour(items[i], items[j])
        /\ items[i].colours \in {<<"black">>, <<"beige">>}
        /\ items[j].colours = <<"yellow">> )
      => outfits[i].score > outfits[j].score

\* C17 witness: a beige dress and a yellow dress have been scored for an
\* intent with the vibe chic and no colour hints, the beige one higher.
C17_Witness ==
  /\ pc = "scored"
  /\ intent.colour_hints = <<>> /\ intent.vibe_tags = <<"chic">>
  /\ items[1].category = "mono" /\ sameButColour(items[1], items[2])
  /\ items[1].colours = <<"beige">> /\ items[2].colours = <<"yellow">>
  /\ outfits[1].score > outfits[2].score

\* The colour factor of an item before any penalty: the largest weight of
\* its colours, plus the neutral bonus.
colourFactorUnpenalised(item, wColour) ==
  IF Len(item.colours) = 0 THEN 0
  ELSE MaxSet({0} \cup {wColour[c] : c \in Range(item.colours)})
         + (IF \E c \in Range(item.colours) : c \in Neutrals
            THEN Tenths(2, MaxSet({wColour[c] : c \in Neutrals})) ELSE 0)

\* The item score with the colour factor cf in place of colourAlignment.
scoreWithColourFactor(item, w, cf) ==
  scoreSingleItem(item, w) - Tenths(WEIGHT_SINGLE.color, colourAlignment(item, w.wColour))
    + Tenths(WEIGHT_SINGLE.color, cf)

\* C25 as claimed: once the items are scored, the colour factor in an item's
\* score is reduced by the penalty 0.5 exactly when the intent has a colour
\* hint and the item has none of the hinted colours; for an intent without
\* colour hints no item's colour factor is reduced.
C25_PenaltyOnlyWithHints ==
  pc \in {"pair", "scored"} =>
    \A i \in 1..Len(items) :
      LET plain == colourFactorUnpenalised(items[i], weights.wColour)
          penalised == /\ Len(intent.colour_hints) > 0
                       /\ Range(items[i].colours) \cap Range(intent.colour_hints) = {}
      IN  outfits[i].score =
            scoreWithColourFactor(items[i], weights, IF penalised THEN plain - 5000 ELSE plain)

\* What holds in place of C25: the penalty is applied exactly when some
\* colour has a positive weight, a baseline weight included, and no colour of
\* the item has one.
C25_PenaltyWithoutWeightedColour ==
  pc \in {"pair", "scored"} =>
    \A i \in 1..Len(items) :
      LET plain == colourFactorUnpenalised(items[i], weights.wColour)
          penalised == /\ \E c \in Colours : weights.wColour[c] > 0
                       /\ \A c \in Range(items[i].colours) : weights.wColour[c] = 0
      IN  outfits[i].score =
            scoreWithColourFactor(items[i], weights, IF penalised THEN plain - 5000 ELSE plain)

\* The part of the scored item i's score that is not its colour, vibe, fit,
\* brand, team or specific-item term: its sport factor (coefficient 1.0).
sportPart(i) ==
  LET it == items[i]
      w == weights
  IN  outfits[i].score
        - ( Tenths(WEIGHT_SINGLE.color, colourAlignment(it, w.wColour))
            + Tenths(WEIGHT_SINGLE.vibe, vibeAlignment(it, w.wVibe))
            + Tenths(WEIGHT_SINGLE.fit, fitAlignment(it, w.wFit))
            + Tenths(WEIGHT_SINGLE.brand, brandAlignment(it, w.brandTokens))
            + Tenths(WEIGHT_SINGLE.team, teamAlignment(it, w.teamTokens))
            + Tenths(WEIGHT_SINGLE.specific, specificItemAlignment(it, w.specificTokens)) )

\* C26: for an intent whose sport context is none, every sport weight is 0,
\* and once the items are scored the sport factor in an item's score is 0 for
\* an item without a sport, negative for an item with one, and lower for a
\* kit than for a sport item that is not a kit; no item gets a positive
\* sport factor (no kit bonus).
C26_NoSportContextOnlyPenalises ==
  (pc = "pair" /\ intent.sport_context = "none") =>
    /\ \A s \in Sports : weights.wSport[s] = 0
    /\ \A i \in 1..Len(items) :
         /\ sportPart(i) <= 0
         /\ sportOf(items[i]) = "none" => sportPart(i) = 0
         /\ sportOf(items[i]) # "none" => sportPart(i) < 0
         /\ \A j \in 1..Len(items) :
              ( /\ sportOf(items[i]) # "none" /\ sportOf(items[j]) # "none"
                /\ items[i].sportMeta.isKit /\ ~items[j].sportMeta.isKit )
              => sportPart(i) < sportPart(j)

\* C26 witness: for an intent without a sport context a kit and a sport item
\* that is not a kit have been scored, the kit's sport factor the lower.
C26_Witness ==
  /\ pc = "pair" /\ intent.sport_context = "none"
  /\ Len(items) = 2
  /\ sportOf(items[1]) # "none" /\ items[1].sportMeta.isKit
  /\ sportOf(items[2]) # "none" /\ ~items[2].sportMeta.isKit
  /\ sportPart(1) < sportPart(2) /\ sportPart(2) < 0

\* C18 as claimed: the number pairColorCompatibility returns for (a, b) is
\* the number it returns for (b, a).
C18_PairColourSymmetric ==
  pc = "scored" => pairScore[1] = pairScore[2]

\* What holds in place of C18: the two numbers are roundings of the same
\* real number (in exact arithmetic the function is symmetric).
C18_PairColourSymmetricUpToRounding ==
  pc = "scored" =>
    /\ pairScore[1].sum.t = pairScore[2].sum.t
    /\ pairScore[1].den = pairScore[2].den
    /\ pairColorCompatibility(items[1], items[2]) = pairColorCompatibility(items[2], items[1])
    /\ pairColorCompatibility(items[1], items[2]) * 10 * pairScore[1].den
         = pairScore[1].sum.t * Unit

(***************************************************************************)
(* Sampling and whole runs: properties                                     *)
(***************************************************************************)
MinOf(a, b) == IF a <= b THEN a ELSE b

\* What main() prints for a result: for each outfit, in order, the role and
\* the image path of each item it has, roles in the order top, bottom, shoes,
\* mono.
outputOf(result) ==
  [i \in 1..Len(result) |->
     LET present == SelectSeq(Roles, LAMBDA k : k \in DOMAIN result[i].outfit)
     IN  [j \in 1..Len(present) |-> <<present[j], result[i].outfit[present[j]].imagePath>>]]

\* The number of candidates the band holds: the top max(3N, N) of them.
bandSize == MinOf(Len(outfits), MaxOf(3 * poolSize, poolSize))

\* Some two candidates have the same signature.
hasTwins ==
  \E i, j \in 1..Len(outfits) :
    i # j /\ signature(outfits[i].outfit) = signature(outfits[j].outfit)

\* C2: at every point of the sampling and at its end, no two accepted
\* candidates have the same signature, at most N candidates are accepted, and
\* at most as many as the band held.
C2_SamplerResultBounded ==
  pc \in {"sample", "done"} =>
    /\ \A i, j \in 1..Len(chosen) :
         i # j => signature(chosen[i].outfit) # signature(chosen[j].outfit)
    /\ Len(chosen) <= poolSize
    /\ Len(chosen) <= bandSize

\* C2 witness: the sampler has ended on three candidates of which two share a
\* signature, asked for two, with two results.
C2_Witness ==
  /\ pc = "done"
  /\ Len(outfits) = 3 /\ hasTwins
  /\ poolSize = 2
  /\ Len(chosen) = 2
  /\ clamp01(epsilon) > 0

\* C3: every iteration of the sampling loop takes one candidate out of the
\* band; the loop, once entered, ends, with N accepted candidates or with an
\* empty band, and the program then ends without error.
C3_SamplingLoopTerminates ==
  /\ [][(pc = "sample" /\ pc' = "sample") => Len(topBand') = Len(topBand) - 1]_vars
  /\ [](pc = "done" => (Len(chosen) >= poolSize \/ Len(topBand) = 0))
  /\ (pc = "sample") ~> (pc = "done" /\ exitCode = 0)

\* C3 witness: the loop has ended on an empty band with fewer than N results,
\* a drawn candidate having been rejected and removed.
C3_Witness ==
  /\ pc = "done"
  /\ exitCode = 0
  /\ Len(chosen) < poolSize
  /\ Len(topBand) = 0
  /\ Len(chosen) < Len(outfits)

\* C4: with epsilon = 0 and jitter = 0 a run ends with min(N, number of
\* candidates) results, each with its unperturbed score, in descending order
\* of score, all of them candidates, no candidate twice, and no candidate left
\* out scoring higher than one that is in; a second run on the same inputs
\* prints the same output.
C4_ZeroNoiseGivesTopN ==
  (pc = "done" /\ clamp01(epsilon) = 0 /\ jitter = 0) =>
    /\ Len(chosen) = MinOf(poolSize, Len(outfits))
    /\ \A i \in 1..Len(chosen) :
         /\ chosen[i] \in Range(outfits)
         /\ chosen[i].score = baseScore(chosen[i].outfit, items, intent)
         /\ \A j \in 1..Len(chosen) :
              /\ i < j => chosen[i].score >= chosen[j].score
              /\ i # j => chosen[i] # chosen[j]
         /\ \A o \in Range(outfits) \ Range(chosen) : o.score <= chosen[i].score
    /\ run = 2 => outputOf(chosen) = outputOf(firstChosen)

\* C4 witness: a second run without noise has ended with the two best of
\* three candidates, the one left out scoring less than the best, and has
\* printed what the first run printed.
C4_Witness ==
  /\ pc = "done" /\ run = 2
  /\ epsilon = 0 /\ jitter = 0
  /\ poolSize = 2 /\ Len(outfits) = 3 /\ Len(chosen) = 2
  /\ \E o \in Range(outfits) \ Range(chosen) : o.score < chosen[1].score
  /\ outputOf(chosen) = outputOf(firstChosen)

\* C13 as claimed: the epsilon the sampling loop tests its draws against is
\* within [0, 0.5], whatever --epsilon is.
C13_EpsilonWithinHalf ==
  pc = "sample" => (clamp01(epsilon) >= 0 /\ 2 * clamp01(epsilon) <= Unit)

\* The part of C13 that holds: it is within [0, 1].
C13_EpsilonWithinUnit ==
  pc = "sample" => (clamp01(epsilon) >= 0 /\ clamp01(epsilon) <= Unit)

\* C14 as claimed: a run that has ended has ended with status 0 exactly when
\* it produced at least one result, and with a non-zero status when it
\* produced none.
C14_SuccessIffResults ==
  pc \in {"done", "exit"} =>
    /\ exitCode = 0 <=> Len(chosen) > 0
    /\ Len(chosen) = 0 => exitCode > 0

\* The part of C14 that holds: for a requested count of at least one, the
\* status is 0 exactly when a result was produced, and 1 exactly when no
\* candidate could be built.
C14_PositiveCountSuccessIffResults ==
  (pc \in {"done", "exit"} /\ poolSize >= 1) =>
    /\ exitCode = 0 <=> Len(chosen) > 0
    /\ exitCode = 1 <=> Len(outfits) = 0

\* The position of a role in the fixed order top, bottom, shoes, mono.
rolePos(r) == CHOOSE i \in 1..Len(Roles) : Roles[i] = r

\* C15: the output has, for each accepted result in acceptance order, one
\* line per populated role (the role and the image path), the roles in the
\* order top, bottom, shoes, mono, then one blank line if another result
\* follows; nothing comes after the last result's lines.
C15_OutputLayout ==
  pc = "done" =>
    LET n == Len(chosen)
        size(i) == Cardinality(DOMAIN chosen[i].outfit)
        off(i) == SumSeq([j \in 1..(i - 1) |-> size(j) + 1])
    IN  /\ Len(stdout) = IF n = 0 THEN 0 ELSE off(n) + size(n)
        /\ \A i \in 1..n :
             /\ \A r \in DOMAIN chosen[i].outfit :
                  LET k == 1 + Cardinality({q \in DOMAIN chosen[i].outfit :
                                              rolePos(q) < rolePos(r)})
                  IN  stdout[off(i) + k] = r \o " " \o chosen[i].outfit[r].imagePath
             /\ i < n => stdout[off(i) + size(i) + 1] = ""

\* C15 witness: two results of two roles each have been printed: five lines,
\* the third of them blank.
C15_Witness ==
  /\ pc = "done"
  /\ Len(chosen) = 2
  /\ \A i \in 1..2 : DOMAIN chosen[i].outfit = {"top", "bottom"}
  /\ Len(stdout) = 5
  /\ stdout[3] = ""

\* C29: at every test of the loop condition the band is in non-increasing
\* order of score; so, when it is not empty, its first element has the
\* highest score and its last the lowest, every weight handed to the
\* weighted draw is at least 0.001, and whatever the draws, the pick is an
\* element of the band, the first one in the greedy branch.
C29_BandStaysSorted ==
  pc = "sample" =>
    /\ \A i, j \in 1..Len(topBand) : i < j => topBand[i].score >= topBand[j].score
    /\ Len(topBand) > 0 =>
         LET minScore == topBand[Len(topBand)].score
             scores == [i \in 1..Len(topBand) |-> topBand[i].score - minScore + 10]
         IN  /\ \A i \in 1..Len(topBand) :
                  /\ topBand[1].score >= topBand[i].score
                  /\ minScore <= topBand[i].score
                  /\ scores[i] >= 10
             /\ \A r \in Draws : choiceWeighted(topBand, scores, r) \in 1..Len(topBand)
             /\ \A u, r \in Draws :
                  LET idx == pickIndex(topBand, clamp01(epsilon), u, r)
                  IN  /\ idx \in 1..Len(topBand)
                      /\ ~(u * Unit < clamp01(epsilon) * RandDen) => idx = 1

\* C29 witness: with a positive epsilon, one candidate has been accepted and
\* taken out, and the remaining band holds at least two candidates, the
\* first scoring higher than the last.
C29_Witness ==
  /\ pc = "sample"
  /\ clamp01(epsilon) > 0
  /\ Len(chosen) = 1
  /\ Len(topBand) >= 2
  /\ topBand[1].score > topBand[Len(topBand)].score

\* C5 as claimed: two runs on the same catalog, intent and options (there is
\* no seed among the program's inputs) print the same output.
C5_SameInputsSameOutput ==
  (pc = "done" /\ run = 2) => outputOf(chosen) = outputOf(firstChosen)

====
